---- MODULE Spec2Model ----
(***************************************************************************)
(* Hypergraph diagrams of discopy (src/discopy/hypergraph.py): the value   *)
(* type Hypergraph, its constructor with canonical spider relabelling,     *)
(* the composition algebra (id, swap, spiders, cups, caps, then, tensor,   *)
(* dagger, rotate, interchange), the pushout it composes with and          *)
(* structural equality through to_graph, the classification predicates,   *)
(* the normalisation passes, the translation to and from diagrams and     *)
(* the decorator from_callable.                                            *)
(*                                                                         *)
(* Python tuples are TLA+ sequences (1-indexed); the values stored in      *)
(* them (spider ids, port indices, box depths) keep Python's 0-based       *)
(* numbering.                                                              *)
(***************************************************************************)
EXTENDS Integers, Sequences, FiniteSets, TLC

VARIABLES cur, op, lhs, rhs, raw, err, glued, out, ar_call, decorator

vars == <<cur, op, lhs, rhs, raw, err, glued, out, ar_call, decorator>>

----------------------------------------------------------------------------
(* Bounds of the model *)

\* Largest number of ports (length of wires) of a raw constructor call.
MaxPorts == 6

\* Largest size of a universe and largest length of the boundaries in a
\* direct call of pushout.
MaxUniverse == 2

MaxBoundary == 3

----------------------------------------------------------------------------
(* Python sequence helpers *)

Min(a, b) == IF a < b THEN a ELSE b

Max(a, b) == IF a < b THEN b ELSE a

Range(s) == {s[i] : i \in DOMAIN s}

\* The function f with its values computed once: TLC keeps a function
\* written [x \in S |-> e] as the expression and recomputes e each time the
\* function is applied.
Stored(f) == f @@ <<>>

\* s[a:b] with 0-based a, exclusive b, clamped as Python clamps slices.
Slice(s, a, b) == SubSeq(s, Max(a, 0) + 1, Min(b, Len(s)))

\* s[::-1]
Rev(s) == [i \in 1..Len(s) |-> s[Len(s) + 1 - i]]

\* s.index(e), 0-based
IndexOf(s, e) == (CHOOSE i \in DOMAIN s : s[i] = e /\ \A j \in 1..(i - 1) : s[j] # e) - 1

\* position (1-based) of the last occurrence of e in s
LastPos(s, e) == CHOOSE i \in DOMAIN s : s[i] = e /\ \A j \in (i + 1)..Len(s) : s[j] # e

\* s.count(e)
Count(s, e) == Cardinality({i \in DOMAIN s : s[i] = e})

RECURSIVE SortedSeq(_)
\* sorted(S) for a finite set of integers
SortedSeq(S) ==
    IF S = {} THEN <<>>
    ELSE LET m == CHOOSE x \in S : \A y \in S : x <= y
         IN <<m>> \o SortedSeq(S \ {m})

RECURSIVE FirstOccurrences(_)
\* sorted(set(wires), key=wires.index): the distinct entries of wires in
\* order of first occurrence
FirstOccurrences(wires) ==
    IF wires = <<>> THEN <<>>
    ELSE LET rest == FirstOccurrences(SubSeq(wires, 1, Len(wires) - 1))
             last == wires[Len(wires)]
         IN IF last \in Range(rest) THEN rest ELSE Append(rest, last)

RECURSIVE Flatten(_)
\* sum(list_of_tuples, ())
Flatten(ss) == IF ss = <<>> THEN <<>> ELSE Head(ss) \o Flatten(Tail(ss))

----------------------------------------------------------------------------
(* The type layer: atomic types with an adjoint, type sequences *)

\* An atomic type: a name and the orientation flag z read by the
\* constructor (getattr(typ, "z", 0)).
Ob(name, z) == [name |-> name, z |-> z]

X == Ob("x", 0)

Y == Ob("y", 0)

Z == Ob("z", 0)

\* typ.r of an atomic type: the adjoint flips the orientation flag, so that
\* it is its own inverse under double application.
ObR(t) == [t EXCEPT !.z = 1 - @]

\* typ.r (and typ.l) of a type sequence: reversed, each object's adjoint.
TyR(ty) == [i \in 1..Len(ty) |-> ObR(ty[Len(ty) + 1 - i])]

\* typ ** n
TyPow(ty, n) == Flatten([i \in 1..n |-> ty])

----------------------------------------------------------------------------
(* The box layer: opaque boxes with dom, cod, dagger and rotation *)

Box(name, dom, cod) == [name |-> name, dom |-> dom, cod |-> cod, is_dagger |-> FALSE, z |-> 0]

\* box.dagger()
BoxDagger(box) == [box EXCEPT !.dom = box.cod, !.cod = box.dom, !.is_dagger = ~@]

\* box.r (and box.l): the half-turn rotation of a box
BoxRotate(box) == [box EXCEPT !.dom = TyR(box.cod), !.cod = TyR(box.dom), !.z = 1 - @]

----------------------------------------------------------------------------
(* Hypergraph: ports, constructor, derived indexings *)

\* offsets entry of a box without placement hint (Python None)
NoOffset == -1

\* Node(kind, depth=, i=, obj=); a diagram input or output has no depth.
Node(kind, depth, i, obj) == [kind |-> kind, depth |-> depth, i |-> i, obj |-> obj]

RECURSIVE DomsAndCods(_, _)
\* the ports of boxes[k..], box by box: dom ports then cod ports
DomsAndCods(boxes, k) ==
    IF k > Len(boxes) THEN <<>>
    ELSE [i \in 1..Len(boxes[k].dom) |-> Node("dom", k - 1, i - 1, boxes[k].dom[i])]
         \o [i \in 1..Len(boxes[k].cod) |-> Node("cod", k - 1, i - 1, boxes[k].cod[i])]
         \o DomsAndCods(boxes, k + 1)

\* Hypergraph.ports
Ports(dom, cod, boxes) ==
    [i \in 1..Len(dom) |-> Node("input", -1, i - 1, dom[i])]
    \o DomsAndCods(boxes, 1)
    \o [i \in 1..Len(cod) |-> Node("output", -1, i - 1, cod[i])]

\* The three forms of the constructor's spider_types argument.
NoTypes == [tag |-> "none", m |-> <<>>]

MapTypes(m) == [tag |-> "map", m |-> m]

\* dict(enumerate(spider_types))
SeqTypes(s) == [tag |-> "map", m |-> [k \in 0..(Len(s) - 1) |-> s[k + 1]]]

\* typ.r if getattr(typ, "z", 0) else typ
NormalType(typ) == IF typ.z # 0 THEN ObR(typ) ELSE typ

\* number of ports before box number k (1-based k; k = Len(boxes) + 1 gives
\* the first output port)
BoxStart(dom, boxes, k) ==
    Len(dom) + Len(Flatten([b \in 1..(k - 1) |-> boxes[b].dom \o boxes[b].cod]))

\* Hypergraph.box_wires
BoxWires(h) ==
    Stored([k \in 1..Len(h.boxes) |->
        LET i == BoxStart(h.dom, h.boxes, k)
            box == h.boxes[k]
        IN [dom_wires |-> Slice(h.wires, i, i + Len(box.dom)),
            cod_wires |-> Slice(h.wires, i + Len(box.dom), i + Len(box.dom) + Len(box.cod))]])

\* Hypergraph.n_spiders
NSpiders(h) == Len(h.spider_types)

\* Hypergraph.spider_wires: for each spider (1-based position s + 1 for
\* spider s) the set of its source ports and the set of its sink ports.
SpiderWiresOf(dom, cod, boxes, wires, n) ==
    [s \in 1..n |->
        LET bw(k) == BoxStart(dom, boxes, k)
        IN [input_wires |->
                {p \in 0..(Len(dom) - 1) : wires[p + 1] = s - 1}
                \cup UNION {{bw(k) + Len(boxes[k].dom) + j : j \in
                        {j \in 0..(Len(boxes[k].cod) - 1) :
                            wires[bw(k) + Len(boxes[k].dom) + j + 1] = s - 1}}
                        : k \in 1..Len(boxes)},
            output_wires |->
                UNION {{bw(k) + j : j \in
                        {j \in 0..(Len(boxes[k].dom) - 1) : wires[bw(k) + j + 1] = s - 1}}
                        : k \in 1..Len(boxes)}
                \cup {bw(Len(boxes) + 1) + j : j \in
                        {j \in 0..(Len(cod) - 1) :
                            wires[Len(wires) - Len(cod) + j + 1] = s - 1}}]]

SpiderWires(h) == SpiderWiresOf(h.dom, h.cod, h.boxes, h.wires, NSpiders(h))

\* Hypergraph.scalar_spiders
ScalarSpiders(h) == {i \in 0..(NSpiders(h) - 1) : Count(h.wires, i) = 0}

Hyp(dom, cod, boxes, wires, spider_types, offsets) ==
    [dom |-> dom, cod |-> cod, boxes |-> boxes, wires |-> wires,
     spider_types |-> spider_types, offsets |-> offsets]

\* the hypergraph with nothing in it, id(Ty())
EmptyH == Hyp(<<>>, <<>>, <<>>, <<>>, <<>>, <<>>)

Raise(e) == [err |-> e, val |-> EmptyH]

Return(h) == [err |-> "none", val |-> h]

\* the labels in increasing order: sorted(set(wires) | set(spider_types))
RelabelingSorted(wires, types) == SortedSeq(Range(wires) \cup DOMAIN types)

\* sorted(set(wires), key=wires.index) + sorted(set(spider_types) -
\* set(relabeling)): the labels in wires in order of first occurrence, then
\* the declared labels no wire refers to (types is the mapping).
Relabeling(wires, types) ==
    FirstOccurrences(wires) \o SortedSeq((DOMAIN types) \ Range(wires))

\* the port compared with the spider type alone: self.ports[i].obj == obj
PortMatchesExactly(port_obj, obj) == port_obj = obj

\* self.ports[i].obj in [obj, adjoint]
PortMatches(port_obj, obj) == port_obj \in {obj, ObR(obj)}

\* Hypergraph.__init__: length check, spider types from the ports when
\* none are given, canonical relabelling, port/spider type check.
HypergraphInit(dom, cod, boxes, wires, spider_types, offsets) ==
    LET ports == Ports(dom, cod, boxes)
    IN  IF Len(wires) # Len(ports) THEN Raise("ValueError")
        ELSE
        LET types == IF spider_types.tag = "none"
                     THEN Stored([s \in Range(wires) |-> ports[LastPos(wires, s)].obj])
                     ELSE spider_types.m
            relabeling == Relabeling(wires, types)
        IN  IF ~(Range(wires) \subseteq DOMAIN types) THEN Raise("KeyError")
            ELSE
            LET new_wires == Stored([p \in 1..Len(wires) |-> IndexOf(relabeling, wires[p])])
                new_types == Stored([k \in 1..Len(relabeling) |->
                                        NormalType(types[relabeling[k]])])
                sw == SpiderWiresOf(dom, cod, boxes, new_wires, Len(new_types))
                mismatch == \E s \in 1..Len(new_types) :
                              \E i \in sw[s].input_wires \cup sw[s].output_wires :
                                 ~PortMatches(ports[i + 1].obj, new_types[s])
            IN  IF mismatch THEN Raise("AxiomError")
                ELSE Return(Hyp(dom, cod, boxes, new_wires, new_types,
                                IF offsets = <<>>
                                THEN [k \in 1..Len(boxes) |-> NoOffset]
                                ELSE offsets))

----------------------------------------------------------------------------
(* The pushout engine *)

RECURSIVE MergedPointwise(_, _, _, _, _)
\* only the right point of each pair takes the label of its left point;
\* the rest of its class keeps the old label
MergedPointwise(m, n, left_boundary, right_boundary, k) ==
    IF k = 0 THEN [e \in 0..(m + n - 1) |-> e]
    ELSE LET prev == MergedPointwise(m, n, left_boundary, right_boundary, k - 1)
         IN Stored([e \in 0..(m + n - 1) |->
                        IF e = m + right_boundary[k] THEN prev[left_boundary[k]]
                        ELSE prev[e]])

RECURSIVE Merged(_, _, _, _, _)
\* Union-find over the disjoint union 0..m+n-1 (the right universe shifted
\* by m) after uniting left_boundary[i] with m + right_boundary[i] for the
\* first k indices i: every element is labelled by the least element of its
\* class.
Merged(m, n, left_boundary, right_boundary, k) ==
    IF k = 0 THEN [e \in 0..(m + n - 1) |-> e]
    ELSE LET prev == Merged(m, n, left_boundary, right_boundary, k - 1)
             a == prev[left_boundary[k]]
             b == prev[m + right_boundary[k]]
         IN Stored([e \in 0..(m + n - 1) |->
                        IF prev[e] = Max(a, b) THEN Min(a, b) ELSE prev[e]])

\* pushout(m, n, left_boundary, right_boundary): the two relabelling maps,
\* class ids assigned in order of first appearance scanning 0..m-1 then the
\* right universe.
Pushout(m, n, left_boundary, right_boundary) ==
    LET root == Merged(m, n, left_boundary, right_boundary, Len(left_boundary))
        roots == {root[e] : e \in 0..(m + n - 1)}
        class(e) == Cardinality({r \in roots : r < root[e]})
    IN [left |-> Stored([i \in 0..(m - 1) |-> class(i)]),
        right |-> Stored([j \in 0..(n - 1) |-> class(m + j)])]

\* one call of pushout: its four arguments and the two maps it returned
Glue(m, n, left_boundary, right_boundary) ==
    [m |-> m, n |-> n, left_boundary |-> left_boundary, right_boundary |-> right_boundary,
     left |-> Pushout(m, n, left_boundary, right_boundary).left,
     right |-> Pushout(m, n, left_boundary, right_boundary).right]

NoGlue == Glue(0, 0, <<>>, <<>>)

----------------------------------------------------------------------------
(* The composition algebra *)

\* Hypergraph.id
Id(dom) ==
    HypergraphInit(dom, dom, <<>>,
        [i \in 1..Len(dom) |-> i - 1] \o [i \in 1..Len(dom) |-> i - 1],
        NoTypes, <<>>)

\* the boundary taken from the wrong end of the wires: self.wires[:len(self.cod)]
SelfBoundaryFromStart(self) == Slice(self.wires, 0, Len(self.cod))

\* the boundary spiders handed to pushout by then
SelfBoundary(self) == Slice(self.wires, Len(self.wires) - Len(self.cod), Len(self.wires))

OtherBoundary(other) == Slice(other.wires, 0, Len(other.dom))

\* the boundaries compared by their lengths only
ComposableByLength(self, other) == Len(self.cod) = Len(other.dom)

\* self.cod == other.dom
Composable(self, other) == self.cod = other.dom

\* Hypergraph.then
Then(self, other) ==
    IF ~Composable(self, other) THEN Raise("AxiomError")
    ELSE
    LET dom == self.dom
        cod == other.cod
        boxes == self.boxes \o other.boxes
        offsets == self.offsets \o other.offsets
        po == Pushout(NSpiders(self), NSpiders(other),
                      SelfBoundary(self), OtherBoundary(other))
        left == po.left
        right == po.right
        self_wires == Slice(self.wires, 0, Len(self.wires) - Len(self.cod))
        other_wires == Slice(other.wires, Len(other.dom), Len(other.wires))
        wires == [p \in 1..Len(self_wires) |-> left[self_wires[p]]]
                 \o [p \in 1..Len(other_wires) |-> right[other_wires[p]]]
        labels == Range(left) \cup Range(right)
        \* a dict comprehension keeps the last value written to a key, and
        \* update() lets other's entries overwrite self's
        spider_types ==
            [l \in labels |->
                IF l \in Range(right)
                THEN other.spider_types[
                        (CHOOSE i \in DOMAIN right : right[i] = l
                            /\ \A j \in DOMAIN right : right[j] = l => j <= i) + 1]
                ELSE self.spider_types[
                        (CHOOSE i \in DOMAIN left : left[i] = l
                            /\ \A j \in DOMAIN left : left[j] = l => j <= i) + 1]]
    IN HypergraphInit(dom, cod, boxes, wires, MapTypes(spider_types), offsets)

\* the wires of other kept as they are: i for i in wires
ShiftNone(n, wires) == wires

\* self.n_spiders + i for i in wires
Shift(n, wires) == [p \in 1..Len(wires) |-> n + wires[p]]

\* the slice without its fallback, self.wires[len(self.dom):-len(self.cod)],
\* which is empty when cod is empty (the stop -0 is 0)
BoxSegmentNoFallback(self) ==
    Slice(self.wires, Len(self.dom),
          IF Len(self.cod) # 0 THEN Len(self.wires) - Len(self.cod) ELSE 0)

\* self.wires[len(self.dom):-len(self.cod) or len(self.wires)]: the wires
\* of the box ports
BoxSegment(self) ==
    Slice(self.wires, Len(self.dom),
          IF Len(self.cod) # 0 THEN Len(self.wires) - Len(self.cod) ELSE Len(self.wires))

\* Hypergraph.tensor
Tensor(self, other) ==
    LET dom == self.dom \o other.dom
        cod == self.cod \o other.cod
        boxes == self.boxes \o other.boxes
        offsets == self.offsets \o other.offsets
        n == NSpiders(self)
        dom_wires == Slice(self.wires, 0, Len(self.dom))
                     \o Shift(n, Slice(other.wires, 0, Len(other.dom)))
        box_wires == BoxSegment(self) \o Shift(n, BoxSegment(other))
        cod_wires == Slice(self.wires, Len(self.wires) - Len(self.cod), Len(self.wires))
                     \o Shift(n, Slice(other.wires, Len(other.wires) - Len(other.cod),
                                       Len(other.wires)))
        wires == dom_wires \o box_wires \o cod_wires
        spiders == self.spider_types \o other.spider_types
    IN HypergraphInit(dom, cod, boxes, wires, SeqTypes(spiders), offsets)

\* the wires of each box in their old order: dom_wires + cod_wires
DaggerBoxWiresUnswapped(self) ==
    LET bw == Rev(BoxWires(self))
    IN Flatten([k \in 1..Len(bw) |-> bw[k].dom_wires \o bw[k].cod_wires])

\* sum([cod_wires + dom_wires for dom_wires, cod_wires in
\* self.box_wires[::-1]], ())
DaggerBoxWires(self) ==
    LET bw == Rev(BoxWires(self))
    IN Flatten([k \in 1..Len(bw) |-> bw[k].cod_wires \o bw[k].dom_wires])

\* Hypergraph.dagger, also reached through self[::-1] (__getitem__)
Dagger(self) ==
    LET dom == self.cod
        cod == self.dom
        boxes == [k \in 1..Len(self.boxes) |-> BoxDagger(Rev(self.boxes)[k])]
        dom_wires == Slice(self.wires, Len(self.wires) - Len(self.cod), Len(self.wires))
        box_wires == DaggerBoxWires(self)
        cod_wires == Slice(self.wires, 0, Len(self.dom))
        wires == dom_wires \o box_wires \o cod_wires
    IN HypergraphInit(dom, cod, boxes, wires, SeqTypes(self.spider_types),
                      Rev(self.offsets))

\* tuple(range(a, b))
TupleRange(a, b) == [i \in 1..(b - a) |-> a + i - 1]

\* the output wires split at len(right) instead of len(left)
SwapWiresSplitAtRight(left, right) ==
    LET n == Len(left) + Len(right)
    IN TupleRange(0, n) \o TupleRange(Len(right), n) \o TupleRange(0, Len(right))

\* tuple(range(len(dom))) + tuple(range(len(left), len(dom)))
\* + tuple(range(len(left)))
SwapWires(left, right) ==
    LET n == Len(left) + Len(right)
    IN TupleRange(0, n) \o TupleRange(Len(left), n) \o TupleRange(0, Len(left))

\* Hypergraph.swap
Swap(left, right) ==
    LET dom == left \o right
        cod == right \o left
    IN HypergraphInit(dom, cod, <<>>, SwapWires(left, right), NoTypes, <<>>)

\* Hypergraph.spiders
Spiders(n_legs_in, n_legs_out, typ) ==
    LET dom == TyPow(typ, n_legs_in)
        cod == TyPow(typ, n_legs_out)
        wires == TyPow([i \in 1..Len(typ) |-> i - 1], n_legs_in + n_legs_out)
    IN HypergraphInit(dom, cod, <<>>, wires, SeqTypes(typ), <<>>)

\* Hypergraph.cups
Cups(left, right) ==
    IF ~(TyR(left) = right) THEN Raise("AxiomError")
    ELSE LET wires == [i \in 1..Len(left) |-> i - 1]
                      \o [i \in 1..Len(left) |-> Len(left) - i]
         IN HypergraphInit(left \o right, <<>>, <<>>, wires, NoTypes, <<>>)

\* Hypergraph.caps
Caps(left, right) ==
    IF ~(TyR(left) = right) THEN Raise("AxiomError")
    ELSE LET wires == [i \in 1..Len(left) |-> i - 1]
                      \o [i \in 1..Len(left) |-> Len(left) - i]
         IN HypergraphInit(<<>>, left \o right, <<>>, wires, NoTypes, <<>>)

\* Hypergraph.rotate, the half turn called with .l and .r
Rotate(self) ==
    LET dom == TyR(self.cod)
        cod == TyR(self.dom)
        boxes == [k \in 1..Len(self.boxes) |-> BoxRotate(Rev(self.boxes)[k])]
        dom_wires == Rev(Slice(self.wires, Len(self.wires) - Len(self.cod),
                               Len(self.wires)))
        bw == Rev(BoxWires(self))
        box_wires == Flatten([k \in 1..Len(bw) |->
                                Rev(bw[k].cod_wires) \o Rev(bw[k].dom_wires)])
        cod_wires == Rev(Slice(self.wires, 0, Len(self.dom)))
        wires == dom_wires \o box_wires \o cod_wires
    IN HypergraphInit(dom, cod, boxes, wires, SeqTypes(self.spider_types),
                      Rev(self.offsets))

\* the boxes and their offsets exchanged while every wire stays where it was
InterchangeBoxesOnly(self, i, j) ==
    LET exchange(s) == [k \in 1..Len(s) |->
                            IF k = i + 1 THEN s[j + 1]
                            ELSE IF k = j + 1 THEN s[i + 1] ELSE s[k]]
    IN HypergraphInit(self.dom, self.cod, exchange(self.boxes), self.wires,
                      SeqTypes(self.spider_types), exchange(self.offsets))

\* Hypergraph.interchange, i and j 0-based box indices
Interchange(self, i, j) ==
    LET exchange(s) == [k \in 1..Len(s) |->
                            IF k = i + 1 THEN s[j + 1]
                            ELSE IF k = j + 1 THEN s[i + 1] ELSE s[k]]
        boxes == exchange(self.boxes)
        offsets == exchange(self.offsets)
        bw == exchange(BoxWires(self))
        box_wires == Flatten([k \in 1..Len(bw) |-> bw[k].dom_wires \o bw[k].cod_wires])
        dom_wires == Slice(self.wires, 0, Len(self.dom))
        cod_wires == Slice(self.wires, Len(self.wires) - Len(self.cod), Len(self.wires))
        wires == dom_wires \o box_wires \o cod_wires
    IN HypergraphInit(self.dom, self.cod, boxes, wires,
                      SeqTypes(self.spider_types), offsets)

\* Hypergraph.from_box
FromBox(box) ==
    LET spider_types == box.dom \o box.cod
        wires == [i \in 1..Len(box.dom) |-> i - 1]
                 \o [i \in 1..Len(box.dom) |-> i - 1]
                 \o [i \in 1..Len(box.cod) |-> Len(box.dom) + i - 1]
                 \o [i \in 1..Len(box.cod) |-> Len(box.dom) + i - 1]
    IN HypergraphInit(box.dom, box.cod, <<box>>, wires, SeqTypes(spider_types), <<>>)

----------------------------------------------------------------------------
(* Structural equality: to_graph and graph isomorphism *)

\* placeholders for the fields a graph node or attribute does not carry
NoOb == Ob("", 0)

NoBox == Box("", <<>>, <<>>)

\* A node of the labelled graph. Node objects compare by kind and data:
\* a spider node is Node("spider", i=, obj=), a box node Node("box", box=,
\* i=), a box port Node(case, i=, j=), an input or output Node(kind, i=,
\* obj=).
GNode(kind, i, j, obj, box) == [kind |-> kind, i |-> i, j |-> j, obj |-> obj, box |-> box]

\* The attribute dictionary networkx stores with a node: {} (key "none"),
\* {i: i}, {box: box} or {j: j, box: None}.
GAttr(key, n, box) == [key |-> key, n |-> n, box |-> box]

\* Hypergraph.to_graph: the nodes in insertion order, their attributes and
\* the directed edges. The spider end of an input or output edge is built
\* from the port's type, the spider end of a box port edge from
\* spider_types.
ToGraph(self) ==
    LET spider(j, obj) == GNode("spider", j, -1, obj, NoBox)
        input(i) == GNode("input", i - 1, -1, self.dom[i], NoBox)
        output(i) == GNode("output", i - 1, -1, self.cod[i], NoBox)
        box(k) == GNode("box", k - 1, -1, NoOb, self.boxes[k])
        port(case, k, j) == GNode(case, k - 1, j - 1, NoOb, NoBox)
        bw == BoxWires(self)
        out_wires == Slice(self.wires, Len(self.wires) - Len(self.cod), Len(self.wires))
        declared == [i \in 1..NSpiders(self) |-> spider(i - 1, self.spider_types[i])]
        inputs == Stored([i \in 1..Len(self.dom) |-> input(i)])
        input_spiders == Stored([i \in 1..Len(self.dom) |->
                                    spider(self.wires[i], self.dom[i])])
        outputs == Stored([i \in 1..Len(self.cod) |-> output(i)])
        output_spiders == Stored([i \in 1..Len(self.cod) |->
                                    spider(out_wires[i], self.cod[i])])
        box_nodes == Flatten([k \in 1..Len(self.boxes) |->
                        <<box(k)>>
                        \o [j \in 1..Len(bw[k].dom_wires) |-> port("dom", k, j)]
                        \o [j \in 1..Len(bw[k].cod_wires) |-> port("cod", k, j)]])
        nodes == FirstOccurrences(declared \o inputs \o input_spiders \o box_nodes
                                  \o outputs \o output_spiders)
        attr == Stored([n \in Range(nodes) |->
                    CASE n.kind = "spider" -> GAttr("none", -1, NoBox)
                      [] n.kind \in {"input", "output"} -> GAttr("i", n.i, NoBox)
                      [] n.kind = "box" -> GAttr("box", -1, n.box)
                      [] OTHER -> GAttr("port", n.j, NoBox)])
        edges == {<<inputs[i], input_spiders[i]>> : i \in 1..Len(self.dom)}
                 \cup {<<output_spiders[i], outputs[i]>> : i \in 1..Len(self.cod)}
                 \cup UNION {
                        {<<spider(bw[k].dom_wires[j],
                                  self.spider_types[bw[k].dom_wires[j] + 1]),
                           port("dom", k, j)>> : j \in 1..Len(bw[k].dom_wires)}
                        \cup {<<port("dom", k, j), box(k)>> : j \in 1..Len(bw[k].dom_wires)}
                        \cup {<<box(k), port("cod", k, j)>> : j \in 1..Len(bw[k].cod_wires)}
                        \cup {<<port("cod", k, j),
                                spider(bw[k].cod_wires[j],
                                       self.spider_types[bw[k].cod_wires[j] + 1])>>
                                : j \in 1..Len(bw[k].cod_wires)}
                        : k \in 1..Len(self.boxes)}
    IN [nodes |-> nodes, attr |-> attr, edges |-> edges]

RECURSIVE Extend(_, _, _, _)
\* Whether the partial matching m (a function from nodes of G1 to nodes of
\* G2) extends to the nodes of todo so that attributes are equal and edges
\* are kept in both directions.
Extend(G1, G2, todo, m) ==
    IF todo = <<>> THEN TRUE
    ELSE LET u == Head(todo)
             used == {m[w] : w \in DOMAIN m}
         IN \E v \in Range(G2.nodes) \ used :
                /\ G1.attr[u] = G2.attr[v]
                /\ \A w \in DOMAIN m :
                      /\ (<<u, w>> \in G1.edges) <=> (<<v, m[w]>> \in G2.edges)
                      /\ (<<w, u>> \in G1.edges) <=> (<<m[w], v>> \in G2.edges)
                /\ Extend(G1, G2, Tail(todo), m @@ (u :> v))

\* the order in which the nodes of a graph are matched: boxes, their ports,
\* inputs and outputs, then spiders
MatchOrder(G) ==
    LET IsBox(n) == n.kind = "box"
        IsPort(n) == n.kind \in {"dom", "cod"}
        IsBoundary(n) == n.kind \in {"input", "output"}
        IsSpider(n) == n.kind = "spider"
    IN SelectSeq(G.nodes, IsBox) \o SelectSeq(G.nodes, IsPort)
       \o SelectSeq(G.nodes, IsBoundary) \o SelectSeq(G.nodes, IsSpider)

\* networkx is_isomorphic(G1, G2, node_match=lambda x, y: x == y) on
\* directed graphs: a bijection of the nodes that keeps the edges and under
\* which the attribute dictionaries are equal. The identity is such a
\* bijection of a graph onto itself, so equal graphs need no search.
IsIsomorphic(G1, G2) ==
    \/ G1 = G2
    \/ /\ Len(G1.nodes) = Len(G2.nodes)
       /\ Cardinality(G1.edges) = Cardinality(G2.edges)
       /\ Extend(G1, G2, MatchOrder(G1), <<>>)

\* Composable.is_parallel
IsParallel(self, other) == self.dom = other.dom /\ self.cod = other.cod

\* Hypergraph.__eq__
Eq(self, other) == IsParallel(self, other) /\ IsIsomorphic(ToGraph(self), ToGraph(other))


----------------------------------------------------------------------------
(* Diagrams of the category layer and the results that are not hypergraphs *)

\* One layer of a diagram: a box between two types, left @ box @ right.
Layer(left, box, right) == [left |-> left, box |-> box, right |-> right]

\* A diagram of the category layer: its boundaries and its layers, one per
\* box; len(diagram) is Len(inside).
Diagram(dom, cod, inside) == [dom |-> dom, cod |-> cod, inside |-> inside]

EmptyDiagram == Diagram(<<>>, <<>>, <<>>)

\* the value returned by an operation that does not return a hypergraph: a
\* list of port indices (bijection) or a diagram (to_diagram)
Out(list, diagram) == [list |-> list, diagram |-> diagram]

NoOut == Out(<<>>, EmptyDiagram)

RaiseOut(e) == [err |-> e, val |-> NoOut]

ReturnOut(o) == [err |-> "none", val |-> o]

----------------------------------------------------------------------------
(* Classification predicates and the bijection between ports *)

\* a spider with a single port passes as well: count(i) in [0, 1, 2]
IsBijectiveAtMostTwo(h) ==
    \A i \in 0..(NSpiders(h) - 1) : Count(h.wires, i) \in {0, 1, 2}

\* Hypergraph.is_bijective
IsBijective(h) ==
    \A i \in 0..(NSpiders(h) - 1) : Count(h.wires, i) \in {0, 2}

\* every spider has as many source ports as sink ports, however many
IsMonogamousEqualCounts(h) ==
    \A s \in DOMAIN SpiderWires(h) :
        Cardinality(SpiderWires(h)[s].input_wires)
        = Cardinality(SpiderWires(h)[s].output_wires)

\* Hypergraph.is_monogamous
IsMonogamous(h) ==
    \A s \in DOMAIN SpiderWires(h) :
        LET input_wires == SpiderWires(h)[s].input_wires
            output_wires == SpiderWires(h)[s].output_wires
        IN /\ Cardinality(input_wires) = Cardinality(output_wires)
           /\ Cardinality(input_wires) + Cardinality(output_wires) \in {0, 2}

\* no spider has more than one source port
IsPolygynousAtMostOne(h) ==
    \A s \in DOMAIN SpiderWires(h) : Cardinality(SpiderWires(h)[s].input_wires) <= 1

\* every spider, the scalar ones too, has exactly one source port
IsPolygynousScalarsToo(h) ==
    \A s \in DOMAIN SpiderWires(h) : Cardinality(SpiderWires(h)[s].input_wires) = 1

\* Hypergraph.is_polygynous
IsPolygynous(h) ==
    \A s \in DOMAIN SpiderWires(h) :
        LET x == SpiderWires(h)[s].input_wires
            y == SpiderWires(h)[s].output_wires
        IN (x \cup y # {}) => Cardinality(x) = 1

\* Hypergraph.is_causal
IsCausal(h) ==
    \A s \in DOMAIN SpiderWires(h) :
        LET input_wires == SpiderWires(h)[s].input_wires
            output_wires == SpiderWires(h)[s].output_wires
        IN /\ Cardinality(input_wires) = 1
           /\ \A u \in input_wires, v \in output_wires : u < v

\* Hypergraph.bijection: the loop writes result[source] and result[target]
\* for every port that has a later port on the same spider, so a port ends
\* up mapped to the next port of its spider, or to the previous one when
\* there is no next; the list is read in increasing order of the keys.
Bijection(h) ==
    IF ~IsBijective(h) THEN RaiseOut("ValueError")
    ELSE
    LET n == Len(h.wires)
        later(p) == {q \in (p + 1)..(n - 1) : h.wires[q + 1] = h.wires[p + 1]}
        earlier(p) == {q \in 0..(p - 1) : h.wires[q + 1] = h.wires[p + 1]}
        keys == SortedSeq({p \in 0..(n - 1) : later(p) \cup earlier(p) # {}})
        result(p) == IF later(p) # {}
                     THEN CHOOSE q \in later(p) : \A q2 \in later(p) : q <= q2
                     ELSE CHOOSE q \in earlier(p) : \A q2 \in earlier(p) : q2 <= q
    IN ReturnOut(Out([k \in 1..Len(keys) |-> result(keys[k])], EmptyDiagram))

----------------------------------------------------------------------------
(* from_graph *)

\* Hypergraph.from_graph. The nodes are read in insertion order. A box
\* node has the attributes it was built with: to_graph builds Node("box",
\* box=, i=) and from_callable Node("box", box=, depth=, offset=), and a
\* missing attribute is not defaulted (make_polygynous reads getattr(node,
\* "depth", -1) for that reason), so n.offset raises AttributeError on a
\* box node of to_graph; the statements after it are then reached only
\* with no box node, where the loop over box_nodes adds no wire. The
\* labels of the wires are the spider nodes themselves, numbered here by
\* their place among the spider nodes of the graph.
FromGraph(graph) ==
    LET IsInput(n) == n.kind = "input"
        IsOutput(n) == n.kind = "output"
        IsBox(n) == n.kind = "box"
        IsSpider(n) == n.kind = "spider"
        inputs == SelectSeq(graph.nodes, IsInput)
        outputs == SelectSeq(graph.nodes, IsOutput)
        box_nodes == SelectSeq(graph.nodes, IsBox)
        spider_nodes == SelectSeq(graph.nodes, IsSpider)
        predecessor(node) == CHOOSE u \in Range(graph.nodes) : <<u, node>> \in graph.edges
        successor(node) == CHOOSE v \in Range(graph.nodes) : <<node, v>> \in graph.edges
        label(n) == IndexOf(spider_nodes, n)
        byI(s) == [k \in 1..Len(s) |-> CHOOSE n \in Range(s) : n.i = SortedSeq({m.i : m \in Range(s)})[k]]
        dom == [k \in 1..Len(inputs) |-> inputs[k].obj]
        cod == [k \in 1..Len(outputs) |-> outputs[k].obj]
        spider_types == [l \in 0..(Len(spider_nodes) - 1) |-> spider_nodes[l + 1].obj]
        wires == [k \in 1..Len(inputs) |-> label(successor(byI(inputs)[k]))]
                 \o [k \in 1..Len(outputs) |-> label(predecessor(byI(outputs)[k]))]
    IN IF box_nodes # <<>> THEN Raise("AttributeError")
       ELSE HypergraphInit(dom, cod, <<>>, wires, MapTypes(spider_types), <<>>)

----------------------------------------------------------------------------
(* The boxes made by the factories of the box layer *)

\* category.ar.spider_factory(n_legs_in, n_legs_out, typ) for an atomic
\* typ: the box Spider(n_legs_in, n_legs_out, typ): typ ** n_legs_in ->
\* typ ** n_legs_out, which keeps its typ (a spider box without legs has
\* no other trace of it)
SpiderBox(n_legs_in, n_legs_out, typ) ==
    Box("Spider", TyPow(<<typ>>, n_legs_in), TyPow(<<typ>>, n_legs_out))
    @@ [typ |-> typ]

\* category.ar.cup_factory(left, right): the box Cup(left, right):
\* left @ right -> Ty()
CupBox(left, right) == Box("Cup", <<left, right>>, <<>>)

\* category.ar.cap_factory(left, right): the box Cap(left, right):
\* Ty() -> left @ right
CapBox(left, right) == Box("Cap", <<>>, <<left, right>>)

----------------------------------------------------------------------------
(* The normalisation passes *)

\* s[:k] + (e, ) + s[k:]
InsertAt(s, k, e) == Slice(s, 0, k) \o <<e>> \o Slice(s, k, Len(s))

\* s[:k] + t + s[k:]
SpliceAt(s, k, t) == Slice(s, 0, k) \o t \o Slice(s, k, Len(s))

\* del s[k]
DeleteAt(s, k) == Slice(s, 0, k) \o Slice(s, k + 1, Len(s))

\* max and min of a non-empty set of port indices
MaxOfSet(S) == CHOOSE x \in S : \A y \in S : y <= x

MinOfSet(S) == CHOOSE x \in S : \A y \in S : x <= y

\* a spider with one port is left alone as well: n_legs in [0, 1, 2]
NeedsSpiderBoxOverTwo(n_legs) == n_legs > 2

\* not (n_legs in [0, 2])
NeedsSpiderBox(n_legs) == n_legs \notin {0, 2}
\* The sets of ports of spider_wires are sets of Python: they are
\* enumerated in the order of their hash table. A table is a sequence of
\* slots, each holding a port or -1; a port hashes to itself, the first
\* slot tried is port % size, a taken slot is followed by the next 9 slots
\* when they lie inside the table and then by the slot i * 5 + 1 + perturb,
\* perturb being the hash shifted right by 5 bits once more each time.
EmptyTable(size) == [k \in 1..size |-> -1]

RECURSIVE TableKeys(_)
\* the ports of a table in the order of enumeration
TableKeys(table) ==
    IF table = <<>> THEN <<>>
    ELSE (IF Head(table) = -1 THEN <<>> ELSE <<Head(table)>>) \o TableKeys(Tail(table))

RECURSIVE SetLookup(_, _, _, _)
\* the slot of the port key in the table, or the free slot it goes to
SetLookup(table, key, i, perturb) ==
    LET mask == Len(table) - 1
        probes == IF i + 9 <= mask THEN 9 ELSE 0
        found == {k \in i..(i + probes) : table[k + 1] \in {-1, key}}
    IN  IF found # {} THEN MinOfSet(found)
        ELSE SetLookup(table, key,
                       (i * 5 + 1 + (perturb \div 32)) % Len(table), perturb \div 32)

\* the table with the port key in its slot
SetInsert(table, key) ==
    LET Put(slot) == Stored([k \in 1..Len(table) |-> IF k = slot + 1 THEN key ELSE table[k]])
    IN  Put(SetLookup(table, key, key % Len(table), key))

RECURSIVE TableSize(_, _)
\* the size of a resized table: the first of 8, 16, 32, ... above minused
TableSize(size, minused) ==
    IF size > minused THEN size ELSE TableSize(size * 2, minused)

RECURSIVE SetInsertAll(_, _)
\* the ports of keys go into the table one after the other
SetInsertAll(table, keys) ==
    IF keys = <<>> THEN table
    ELSE SetInsertAll(SetInsert(table, Head(keys)), Tail(keys))

\* the ports of the table moved to a table large enough for minused ports,
\* in the order of their slots
SetResize(table, minused) ==
    SetInsertAll(EmptyTable(TableSize(8, minused)), TableKeys(table))

\* the number of ports of a table
TableCount(table) == Cardinality({k \in 1..Len(table) : table[k] # -1})

\* set.add(key): the table grows to the first size above four times its
\* number of ports once three fifths of it are taken
SetAdd(table, key) ==
    LET Grown(added, used) ==
            IF used * 5 < (Len(added) - 1) * 3 THEN added
            ELSE SetResize(added, used * 4)
        Counted(added) == Grown(added, TableCount(added))
    IN  Counted(SetInsert(table, key))

RECURSIVE SetAddAll(_, _)
SetAddAll(table, keys) ==
    IF keys = <<>> THEN table
    ELSE SetAddAll(SetAdd(table, Head(keys)), Tail(keys))

\* a set of spider_wires: set() and then .add(port) for each port of the
\* spider in increasing order
SetOfPorts(ports) == SetAddAll(EmptyTable(8), SortedSeq(ports))

\* The ports of other go into a table that is large enough: an empty
\* table of the size of other takes over its slots, another empty table
\* gets its ports in the order of its slots, and so does a table with
\* ports, growing as set.add does.
SetMergeInto(table, other) ==
    IF TableKeys(table) = <<>> /\ Len(table) = Len(other) THEN other
    ELSE IF TableKeys(table) = <<>> THEN SetInsertAll(table, TableKeys(other))
    ELSE SetAddAll(table, TableKeys(other))

\* so.update(other) for two sets without a common port: so is resized
\* once at the start when the ports of both take three fifths of it
SetMerge(so, other) ==
    IF TableKeys(other) = <<>> THEN so
    ELSE IF (Len(TableKeys(so)) + Len(TableKeys(other))) * 5 >= (Len(so) - 1) * 3
    THEN SetMergeInto(SetResize(so, (Len(TableKeys(so)) + Len(TableKeys(other))) * 2), other)
    ELSE SetMergeInto(so, other)

\* the ports in the order in which input_wires.union(output_wires) is
\* enumerated: a copy of input_wires updated with output_wires
UnionOrder(input_wires, output_wires) ==
    TableKeys(SetMerge(SetMerge(EmptyTable(8), SetOfPorts(input_wires)),
                       SetOfPorts(output_wires)))

\* The spiders make_bijective has to rewrite: those with a number of legs
\* other than 0 or 2
BijectiveTodo(self) ==
    {s \in 0..(NSpiders(self) - 1) :
        NeedsSpiderBox(Cardinality(SpiderWires(self)[s + 1].input_wires)
                       + Cardinality(SpiderWires(self)[s + 1].output_wires))}

\* the depth in front of the first box, whatever the ports of the spider
FrontDepth(self, spider) == 0

\* The depth make_bijective gives the spider box of a spider: after the
\* box of its last source port (0 when that port is an input of the
\* diagram), and for a spider without source port the depth of the box of
\* its first sink port (after the last box when that port is an output of
\* the diagram).
BijectiveDepth(self, spider) ==
    LET input_wires == SpiderWires(self)[spider + 1].input_wires
        output_wires == SpiderWires(self)[spider + 1].output_wires
        ports == Ports(self.dom, self.cod, self.boxes)
    IN  IF input_wires # {}
        THEN LET node == ports[MaxOfSet(input_wires) + 1]
             IN IF node.kind = "input" THEN 0 ELSE node.depth + 1
        ELSE LET node == ports[MinOfSet(output_wires) + 1]
             IN IF node.kind = "output" THEN Len(self.boxes) ELSE node.depth

\* One rewrite of make_bijective: the spider gets a spider box at depth and
\* one fresh spider per leg. The legs are numbered in the order in which
\* the set input_wires.union(output_wires) is enumerated, the ports of the
\* box in the order of its dom and cod.
BijectiveStep(self, spider, depth) ==
    LET n == NSpiders(self)
        typ == self.spider_types[spider + 1]
        i == BoxStart(self.dom, self.boxes, depth + 1)
        Rewired(legs) ==
            [p \in 1..Len(self.wires) |->
                IF (p - 1) \in Range(legs) THEN n + IndexOf(legs, p - 1)
                ELSE self.wires[p]]
        Renumbered(spliced) ==
            [p \in 1..Len(spliced) |->
                IF spliced[p] > spider THEN spliced[p] - 1 ELSE spliced[p]]
        Rebuilt(input_wires, output_wires, legs) ==
            HypergraphInit(self.dom, self.cod,
                InsertAt(self.boxes, depth,
                         SpiderBox(Cardinality(input_wires), Cardinality(output_wires), typ)),
                Renumbered(SpliceAt(Rewired(legs), i, TupleRange(n, n + Len(legs)))),
                SeqTypes(DeleteAt(self.spider_types \o [k \in 1..Len(legs) |-> typ], spider)),
                InsertAt(self.offsets, depth, NoOffset))
        Legged(input_wires, output_wires) ==
            Rebuilt(input_wires, output_wires, UnionOrder(input_wires, output_wires))
    IN  Legged(SpiderWires(self)[spider + 1].input_wires,
               SpiderWires(self)[spider + 1].output_wires)

RECURSIVE MakeBijective(_)
\* result.make_bijective() for the outcome of a call: an exception raised
\* by the call goes through
MakeBijectiveOf(result) ==
    IF result.err # "none" THEN result ELSE MakeBijective(result.val)

\* Hypergraph.make_bijective: the spiders are scanned from the last to the
\* first; the first one found with a number of legs other than 0 or 2 is
\* rewritten and the pass starts again on the result.
MakeBijective(self) ==
    LET Rewritten(spider) ==
            MakeBijectiveOf(BijectiveStep(self, spider, BijectiveDepth(self, spider)))
    IN  IF BijectiveTodo(self) = {} THEN Return(self)
        ELSE Rewritten(MaxOfSet(BijectiveTodo(self)))

\* the kinds of the two ports joined by a cap, without the outputs
CapKindsDomOnly == {"dom"}

\* the kinds of port a cup joins two of (sources) and the kinds a cap joins
\* two of (sinks)
CupKinds == {"input", "cod"}

CapKinds == {"dom", "output"}

\* The rewrite of make_monogamous: the spider of the ports source and
\* target is split in two; a cup box appended after the boxes, or a cap box
\* put before them, joins the two halves.
SplitSpider(self, source, target, cups_or_caps) ==
    LET spider == self.wires[source + 1]
        typ == self.spider_types[spider + 1]
        left == NSpiders(self)
        right == NSpiders(self) + 1
        rewired == [p \in 1..Len(self.wires) |->
                        IF p = source + 1 THEN left
                        ELSE IF p = target + 1 THEN right ELSE self.wires[p]]
        boxes == IF cups_or_caps = "cups"
                 THEN self.boxes \o <<CupBox(typ, typ)>>
                 ELSE <<CapBox(typ, typ)>> \o self.boxes
        offsets == IF cups_or_caps = "cups"
                   THEN self.offsets \o <<NoOffset>>
                   ELSE <<NoOffset>> \o self.offsets
        wires == IF cups_or_caps = "cups"
                 THEN SpliceAt(rewired, Len(rewired) - Len(self.cod), <<left, right>>)
                 ELSE SpliceAt(rewired, Len(self.dom), <<left, right>>)
        spider_types == [l \in (0..right) \ {spider} |->
                            IF l \in {left, right} THEN typ ELSE self.spider_types[l + 1]]
    IN HypergraphInit(self.dom, self.cod, boxes, wires, MapTypes(spider_types), offsets)

RECURSIVE MakeMonogamous(_)
\* result.make_monogamous() for the outcome of a call
MakeMonogamousOf(result) ==
    IF result.err # "none" THEN result ELSE MakeMonogamous(result.val)

\* Hypergraph.make_monogamous: make_bijective first; then the first port of
\* a cup kind whose next port on the same spider is of a cup kind too gets
\* a cup, else the first such pair of cap kinds a cap, and the pass starts
\* again on the result.
MakeMonogamous(self) ==
    IF ~IsBijective(self)
    THEN MakeMonogamousOf(MakeBijective(self))
    ELSE
    LET ports == Ports(self.dom, self.cod, self.boxes)
        n == Len(self.wires)
        later(p) == {q \in (p + 1)..(n - 1) : self.wires[q + 1] = self.wires[p + 1]}
        target(p) == MinOfSet(later(p))
        pairs(kinds) == {p \in 0..(n - 1) :
                            /\ ports[p + 1].kind \in kinds
                            /\ later(p) # {}
                            /\ ports[target(p) + 1].kind \in kinds}
        split(source, cups_or_caps) ==
            MakeMonogamousOf(SplitSpider(self, source, target(source), cups_or_caps))
    IN  IF pairs(CupKinds) # {} THEN split(MinOfSet(pairs(CupKinds)), "cups")
        ELSE IF pairs(CapKinds) # {} THEN split(MinOfSet(pairs(CapKinds)), "caps")
        ELSE Return(self)

\* len(sum([sum(wires, []) for wires in box_wires], [])) for a slice of
\* self.box_wires: each entry is a pair of tuples, and sum(pair, []) adds a
\* tuple to a list, which raises TypeError; only the empty slice has a sum.
LenOfListSum(box_wires) ==
    IF box_wires # <<>> THEN [err |-> "TypeError", val |-> 0]
    ELSE [err |-> "none", val |-> 0]

\* The spiders make_polygynous has to rewrite: those whose number of source
\* ports is not one
PolygynousTodo(self) ==
    {s \in 0..(NSpiders(self) - 1) :
        Cardinality(SpiderWires(self)[s + 1].input_wires) # 1}

\* The depth make_polygynous gives the merge box of a spider: after the box
\* of its last source port (getattr(port, "depth", -1) + 1, so 0 when that
\* port is an input of the diagram), 0 for a spider without source port.
PolygynousDepth(self, spider) ==
    LET input_wires == SpiderWires(self)[spider + 1].input_wires
        ports == Ports(self.dom, self.cod, self.boxes)
    IN  IF input_wires # {} THEN ports[MaxOfSet(input_wires) + 1].depth + 1 ELSE 0

\* One rewrite of make_polygynous: the spider gets a box
\* spider_factory(len(input_wires), 1, typ) at depth whose domain takes
\* over the source ports through fresh spiders and whose codomain is the
\* spider's only source.
PolygynousStep(self, spider, depth) ==
    LET n == NSpiders(self)
        typ == self.spider_types[spider + 1]
        input_wires == SpiderWires(self)[spider + 1].input_wires
        boxes == InsertAt(self.boxes, depth,
                          SpiderBox(Cardinality(input_wires), 1, typ))
        offsets == InsertAt(self.offsets, depth, NoOffset)
        legs == SortedSeq(input_wires)
        rewired == [p \in 1..Len(self.wires) |->
                        IF (p - 1) \in Range(legs) THEN n + IndexOf(legs, p - 1)
                        ELSE self.wires[p]]
        before == LenOfListSum(Slice(BoxWires(self), 0, depth))
        i == Len(self.dom) + before.val
        wires == SpliceAt(rewired, i,
                          TupleRange(n, n + Cardinality(input_wires)) \o <<spider>>)
        spider_types == self.spider_types \o [k \in 1..Cardinality(input_wires) |-> typ]
    IN IF before.err # "none" THEN Raise(before.err)
       ELSE HypergraphInit(self.dom, self.cod, boxes, wires, SeqTypes(spider_types), offsets)

RECURSIVE MakePolygynous(_)
\* result.make_polygynous() for the outcome of a call
MakePolygynousOf(result) ==
    IF result.err # "none" THEN result ELSE MakePolygynous(result.val)

\* Hypergraph.make_polygynous: the spiders are scanned from the first to
\* the last; the first one whose number of source ports is not one is
\* rewritten and the pass starts again on the result.
MakePolygynous(self) ==
    LET Rewritten(spider) ==
            MakePolygynousOf(PolygynousStep(self, spider, PolygynousDepth(self, spider)))
    IN  IF PolygynousTodo(self) = {} THEN Return(self)
        ELSE Rewritten(MinOfSet(PolygynousTodo(self)))

\* a >> b and a @ b for the outcomes a and b of two calls: the first
\* exception raised goes through
ThenOf(a, b) ==
    IF a.err # "none" THEN a ELSE IF b.err # "none" THEN b ELSE Then(a.val, b.val)

TensorOf(a, b) ==
    IF a.err # "none" THEN a ELSE IF b.err # "none" THEN b ELSE Tensor(a.val, b.val)

\* Hypergraph.explicit_trace(left=False) when category.ar.trace_factory is
\* a class method, as for the compact and frobenius diagrams of the
\* docstrings: the last input is fed back from the last output through a
\* cap box before and a cup box after the hypergraph,
\* dom @ cap >> self @ typ.r >> cod @ cup.
ExplicitTrace(self) ==
    IF self.dom = <<>> \/ self.cod = <<>> THEN Raise("AxiomError")
    ELSE IF self.dom[Len(self.dom)] # self.cod[Len(self.cod)] THEN Raise("AxiomError")
    ELSE
    LET typ == self.dom[Len(self.dom)]
        dom == Slice(self.dom, 0, Len(self.dom) - 1)
        cod == Slice(self.cod, 0, Len(self.cod) - 1)
    IN ThenOf(ThenOf(TensorOf(Id(dom), FromBox(CapBox(typ, ObR(typ)))),
                     TensorOf(Return(self), Id(<<ObR(typ)>>))),
              TensorOf(Id(cod), FromBox(CupBox(typ, ObR(typ)))))

\* One rewrite of make_causal on a polygynous hypergraph: the first spider
\* with no source, or with a sink before its source, found scanning the
\* spiders in order and the sinks of a spider in increasing order. found
\* tells whether there is one, arg is the hypergraph built for it, with one
\* more input and one more output of the spider's type. A spider with no
\* source is asserted to have no sink (assert not output_wires).
CausalStep(self) ==
    LET sw == SpiderWires(self)
        n == NSpiders(self)
        backward(s) == {v \in sw[s + 1].output_wires :
                            \E u \in sw[s + 1].input_wires : v < u}
        todo == {s \in 0..(n - 1) : sw[s + 1].input_wires = {} \/ backward(s) # {}}
    IN  IF todo = {} THEN [found |-> FALSE, arg |-> Return(self)]
        ELSE
        LET input_spider == MinOfSet(todo)
            typ == self.spider_types[input_spider + 1]
            dom == self.dom \o <<typ>>
            cod == self.cod \o <<typ>>
        IN  IF sw[input_spider + 1].input_wires = {}
               /\ sw[input_spider + 1].output_wires # {}
            THEN [found |-> TRUE, arg |-> Raise("AssertionError")]
            ELSE IF sw[input_spider + 1].input_wires = {}
            THEN [found |-> TRUE,
                  arg |-> HypergraphInit(dom, cod, self.boxes,
                            (Slice(self.wires, 0, Len(self.dom)) \o <<input_spider>>)
                            \o (Slice(self.wires, Len(self.dom), Len(self.wires))
                                \o <<input_spider>>),
                            SeqTypes(self.spider_types), self.offsets)]
            ELSE
            LET output_wire == MinOfSet(backward(input_spider))
                spider_types == self.spider_types \o <<typ>>
                output_spider == Len(spider_types) - 1
                rewired == [p \in 1..Len(self.wires) |->
                                IF p = output_wire + 1 THEN output_spider ELSE self.wires[p]]
            IN [found |-> TRUE,
                arg |-> HypergraphInit(dom, cod, self.boxes,
                            (Slice(rewired, 0, Len(self.dom)) \o <<output_spider>>)
                            \o (Slice(rewired, Len(self.dom), Len(rewired))
                                \o <<input_spider>>),
                            SeqTypes(spider_types), self.offsets)]

\* result.explicit_trace() for the outcome of a call
ExplicitTraceOf(result) ==
    IF result.err # "none" THEN result ELSE ExplicitTrace(result.val)

RECURSIVE MakeCausal(_)
\* result.make_causal() for the outcome of a call
MakeCausalOf(result) ==
    IF result.err # "none" THEN result ELSE MakeCausal(result.val)

\* Hypergraph.make_causal: make_polygynous first; then each rewrite hands
\* arg.make_causal() to explicit_trace.
MakeCausal(self) ==
    IF ~IsPolygynous(self)
    THEN MakeCausalOf(MakePolygynous(self))
    ELSE
    LET Traced(step) ==
            IF ~step.found THEN Return(self)
            ELSE ExplicitTraceOf(MakeCausalOf(step.arg))
    IN  Traced(CausalStep(self))

----------------------------------------------------------------------------
(* The diagram algebra used by to_diagram *)

\* the outcome of a call that returns a diagram
RaiseDiagram(e) == [err |-> e, val |-> EmptyDiagram]

ReturnDiagram(d) == [err |-> "none", val |-> d]

\* category.ar.id(dom)
DiagramId(dom) == Diagram(dom, dom, <<>>)

\* a box as a diagram of one layer
DiagramOfBox(box) == Diagram(box.dom, box.cod, <<Layer(<<>>, box, <<>>)>>)

\* left @ diagram @ right for two types left and right
Whisker(left, diagram, right) ==
    Diagram(left \o diagram.dom \o right, left \o diagram.cod \o right,
            [k \in 1..Len(diagram.inside) |->
                Layer(left \o diagram.inside[k].left, diagram.inside[k].box,
                      diagram.inside[k].right \o right)])

\* diagram >> other for the outcome of a call and a diagram: AxiomError
\* unless diagram.cod == other.dom
DiagramThen(diagram, other) ==
    IF diagram.err # "none" THEN diagram
    ELSE IF diagram.val.cod # other.dom THEN RaiseDiagram("AxiomError")
    ELSE ReturnDiagram(Diagram(diagram.val.dom, other.cod,
                               diagram.val.inside \o other.inside))

\* the box Swap(left, right) of two atomic types
SwapBox(left, right) == Box("Swap", <<left, right>>, <<right, left>>)

RECURSIVE DiagramSwap(_, _)
\* diagram.swap(left, right): left @ right -> right @ left as a composite
\* of swaps of atomic types, one per crossing; the identity when either
\* type is empty.
DiagramSwap(left, right) ==
    IF left = <<>> \/ right = <<>> THEN DiagramId(left \o right)
    ELSE IF Len(left) = 1
    THEN LET first == Whisker(<<>>, DiagramOfBox(SwapBox(left[1], right[1])), Tail(right))
             rest == Whisker(<<right[1]>>, DiagramSwap(left, Tail(right)), <<>>)
         IN Diagram(left \o right, right \o left, first.inside \o rest.inside)
    ELSE LET first == Whisker(<<left[1]>>, DiagramSwap(Tail(left), right), <<>>)
             rest == Whisker(<<>>, DiagramSwap(<<left[1]>>, right), Tail(left))
         IN Diagram(left \o right, right \o left, first.inside \o rest.inside)

----------------------------------------------------------------------------
(* to_diagram *)

\* the offset kept as it is after an input was moved to the right
OffsetAfterMoveRightKept(offset) == offset

\* offset -= 1
OffsetAfterMoveRight(offset) == offset - 1

\* What to_diagram holds while it runs: the exception raised if any, the
\* diagram built so far, the spiders on its frontier and the offset of the
\* box being placed. log is a history of the run, empty at the start.
Planar(e, diagram, scan, offset) ==
    [err |-> e, diagram |-> diagram, scan |-> scan, offset |-> offset, log |-> <<>>]

\* One entry of the history: box is the number of the box appended (0 for
\* an insertion of swaps), at the offset it is appended at, before and
\* scan the frontier before and after the step, cod the cod of the diagram
\* after it and composed whether diagram >>= ... went through.
Entry(box, at, before, scan, cod, composed) ==
    [box |-> box, at |-> at, before |-> before, scan |-> scan, cod |-> cod,
     composed |-> composed]

\* diagram >>= layers, keeping the first exception; the step is written to
\* the history with the frontier as lines 944-957 leave it
Extended(st, layers, scan, offset, box, at) ==
    LET Logged(result) ==
            IF result.err # "none"
            THEN [st EXCEPT !.err = result.err,
                            !.log = Append(st.log, Entry(box, at, st.scan, scan,
                                                         st.diagram.cod, FALSE))]
            ELSE [err |-> "none", diagram |-> result.val, scan |-> scan, offset |-> offset,
                  log |-> Append(st.log, Entry(box, at, st.scan, scan, result.val.cod, TRUE))]
    IN  Logged(DiagramThen(ReturnDiagram(st.diagram), layers))

RECURSIVE PlaceInputs(_, _, _, _, _)
\* The loop over the inputs i, i + 1, ... of the box number k (1-based) of
\* to_diagram: the spider of each input is looked up on the frontier
\* (ValueError if it is not there) and swapped into place next to the
\* inputs before it.
PlaceInputs(self, st, n_ports, k, i) ==
    IF st.err # "none" \/ i >= Len(self.boxes[k].dom) THEN st
    ELSE
    LET spider == self.wires[n_ports + i + 1]
        cod == st.diagram.cod
        scan == st.scan
        offset == st.offset
        n == Len(scan)
        Moved(j) ==
            IF i = 0 /\ offset = NoOffset THEN [st EXCEPT !.offset = j]
            ELSE IF j > offset + i
            THEN Extended(st,
                    Whisker(Slice(cod, 0, offset + i),
                            DiagramSwap(Slice(cod, offset + i, j), Slice(cod, j, j + 1)),
                            Slice(cod, j + 1, Len(cod))),
                    (Slice(scan, 0, offset + i) \o Slice(scan, j, j + 1))
                    \o (Slice(scan, offset + i, j) \o Slice(scan, j + 1, n)),
                    offset, 0, offset + i)
            ELSE IF j < offset + i
            THEN Extended(st,
                    Whisker(Slice(cod, 0, j),
                            DiagramSwap(Slice(cod, j, j + 1), Slice(cod, j + 1, offset + i)),
                            Slice(cod, offset + i, Len(cod))),
                    (Slice(scan, 0, j) \o Slice(scan, j + 1, offset + i))
                    \o (Slice(scan, j, j + 1) \o Slice(scan, offset + i, n)),
                    OffsetAfterMoveRight(offset), 0, j)
            ELSE st
        Checked(moved) ==
            IF moved.err = "none" /\ Len(moved.scan) # Len(moved.diagram.cod)
            THEN [moved EXCEPT !.err = "AssertionError"]
            ELSE moved
    IN  IF spider \notin Range(scan)
        THEN [st EXCEPT !.err = "ValueError"]
        ELSE PlaceInputs(self, Checked(Moved(IndexOf(scan, spider))), n_ports, k, i + 1)

RECURSIVE PlaceBoxes(_, _, _, _)
\* The loop over the boxes k, k + 1, ... of to_diagram: the inputs of the
\* box are brought together at its offset, the box is appended and its
\* outputs replace its inputs on the frontier.
PlaceBoxes(self, st, n_ports, k) ==
    IF st.err # "none" \/ k > Len(self.boxes) THEN st
    ELSE
    LET box == self.boxes[k]
        Appended(placed, offset) ==
            Extended(placed,
                Whisker(Slice(placed.diagram.cod, 0, offset), DiagramOfBox(box),
                        Slice(placed.diagram.cod, offset + Len(box.dom),
                              Len(placed.diagram.cod))),
                Slice(placed.scan, 0, offset)
                \o Slice(self.wires, n_ports + Len(box.dom),
                         n_ports + Len(box.dom) + Len(box.cod))
                \o Slice(placed.scan, offset + Len(box.dom), Len(placed.scan)),
                NoOffset, k, offset)
        Boxed(placed) ==
            IF placed.err # "none" THEN placed
            ELSE PlaceBoxes(self,
                    Appended(placed, IF placed.offset = NoOffset THEN 0 ELSE placed.offset),
                    n_ports + Len(box.dom) + Len(box.cod), k + 1)
    IN  Boxed(PlaceInputs(self, [st EXCEPT !.offset = self.offsets[k]], n_ports, k, 0))

RECURSIVE SortOutputs(_, _, _, _)
\* The last loop of to_diagram: the spider of each output i, i + 1, ... is
\* looked up on the frontier and swapped to the place i.
SortOutputs(self, st, n_ports, i) ==
    IF st.err # "none" \/ i >= Len(self.cod) THEN st
    ELSE
    LET spider == self.wires[n_ports + i + 1]
        cod == st.diagram.cod
        scan == st.scan
        j == IndexOf(scan, spider)
        moved ==
            IF i < j
            THEN Extended(st,
                    Whisker(Slice(cod, 0, i),
                            DiagramSwap(Slice(cod, i, j), Slice(cod, j, j + 1)),
                            Slice(cod, j + 1, Len(cod))),
                    Slice(scan, 0, i) \o Slice(scan, j, j + 1)
                    \o Slice(scan, i, j) \o Slice(scan, j + 1, Len(scan)),
                    NoOffset, 0, i)
            ELSE st
    IN  IF spider \notin Range(scan)
        THEN [st EXCEPT !.err = "ValueError"]
        ELSE SortOutputs(self, moved, n_ports, i + 1)

\* to_diagram from its line diagram = id(self.dom) on, for a hypergraph that
\* is causal and monogamous
Planarize(self) ==
    LET start == Planar("none", DiagramId(self.dom),
                        Slice(self.wires, 0, Len(self.dom)), NoOffset)
        boxed == PlaceBoxes(self, start, Len(self.dom), 1)
    IN SortOutputs(self, boxed, Len(self.wires) - Len(self.cod), 0)

\* Hypergraph.to_diagram(make_causal_first=False): a hypergraph that is
\* not causal and monogamous goes through make_monogamous and make_causal
\* first; were their result not causal and monogamous either, the method
\* would call itself without end (RecursionError).
ToDiagram(self) ==
    IF IsCausal(self) /\ IsMonogamous(self) THEN Planarize(self)
    ELSE
    LET Planarized(causal) ==
            IF causal.err # "none"
            THEN Planar(causal.err, EmptyDiagram, <<>>, NoOffset)
            ELSE IF ~(IsCausal(causal.val) /\ IsMonogamous(causal.val))
            THEN Planar("RecursionError", EmptyDiagram, <<>>, NoOffset)
            ELSE Planarize(causal.val)
    IN  Planarized(MakeCausalOf(MakeMonogamous(self)))
----------------------------------------------------------------------------
(* from_diagram *)

\* The image of a box under the functor of from_diagram: a swap box goes to
\* Hypergraph.swap, a spider box to Hypergraph.spiders, a cup or cap box
\* to Hypergraph.cups or Hypergraph.caps, every other box through ar,
\* which is from_box.
BoxImage(box) ==
    IF box.name = "Swap" THEN Swap(<<box.dom[1]>>, <<box.dom[2]>>)
    ELSE IF box.name = "Spider"
    THEN Spiders(Len(box.dom), Len(box.cod), <<box.typ>>)
    ELSE IF box.name = "Cup" THEN Cups(<<box.dom[1]>>, <<box.dom[2]>>)
    ELSE IF box.name = "Cap" THEN Caps(<<box.cod[1]>>, <<box.cod[2]>>)
    ELSE FromBox(box)

\* the image of a layer left @ box @ right
LayerImage(layer) ==
    TensorOf(TensorOf(Id(layer.left), BoxImage(layer.box)), Id(layer.right))

\* the image of the first k layers of a diagram, composed from id(dom)
RECURSIVE LayersImage(_, _)

LayersImage(old, k) ==
    IF k = 0 THEN Id(old.dom)
    ELSE ThenOf(LayersImage(old, k - 1), LayerImage(old.inside[k]))

\* Hypergraph.from_diagram: the functor that is the identity on types and
\* from_box on boxes, into hypergraphs
FromDiagram(old) == LayersImage(old, Len(old.inside))

\* every wire of h carries one type: the ports of a spider all have the
\* same type
WellTypedWires(h) ==
    LET ports == Ports(h.dom, h.cod, h.boxes)
    IN \A p, q \in 1..Len(h.wires) :
          h.wires[p] = h.wires[q] => ports[p].obj = ports[q].obj

\* h is expressible without cups, caps or traces: once its spiders are
\* boxes (make_bijective), every wire goes from one source to one sink of
\* the same type and forwards in the order of the boxes
IsExpressible(h) ==
    LET bijective == MakeBijective(h)
    IN /\ bijective.err = "none"
       /\ IsMonogamous(bijective.val)
       /\ IsCausal(bijective.val)
       /\ WellTypedWires(bijective.val)

\* the hypergraphs of the docstring of from_diagram
IsDocExample(h) ==
    h \in {Spiders(0, 0, <<X>>).val, Spiders(2, 3, <<X>>).val,
           Spiders(1, 2, <<X, Y>>).val}

----------------------------------------------------------------------------
(* simplify *)

\* What simplify hands back: the exception raised if any, the hypergraph
\* returned, and the number of interchanges it applied on the way.
Simplified(e, h, steps) == [err |-> e, val |-> h, steps |-> steps]

\* len(h.to_diagram()): the number of layers of the planar form
DiagramLen(planar) == Len(planar.diagram.inside)

\* len(result.to_diagram()) < len(self.to_diagram())
IsShorter(result_len, self_len) == result_len < self_len

\* The two loops of simplify from the k-th pair (i, j) on, pairs counted
\* in the order of for i in range(n): for j in range(n): the first pair
\* whose interchange has a shorter planar form, or none; an exception of
\* interchange or of either to_diagram goes through.
RECURSIVE FirstShorter(_, _)

FirstShorter(self, k) ==
    LET n == Len(self.boxes)
        Raised(e) == [err |-> e, found |-> FALSE, val |-> self]
        Compared(result, shorter, current) ==
            IF shorter.err # "none" THEN Raised(shorter.err)
            ELSE IF current.err # "none" THEN Raised(current.err)
            ELSE IF IsShorter(DiagramLen(shorter), DiagramLen(current))
            THEN [err |-> "none", found |-> TRUE, val |-> result]
            ELSE FirstShorter(self, k + 1)
        Tried(result) ==
            IF result.err # "none" THEN Raised(result.err)
            ELSE Compared(result.val, ToDiagram(result.val), ToDiagram(self))
    IN  IF k >= n * n THEN [err |-> "none", found |-> FALSE, val |-> self]
        ELSE Tried(Interchange(self, k \div n, k % n))

\* Hypergraph.simplify, after steps interchanges
RECURSIVE SimplifyFrom(_, _)

SimplifyFrom(self, steps) ==
    LET Continued(first) ==
            IF first.err # "none" THEN Simplified(first.err, self, steps)
            ELSE IF first.found THEN SimplifyFrom(first.val, steps + 1)
            ELSE Simplified("none", self, steps)
    IN  Continued(FirstShorter(self, 0))

\* Hypergraph.simplify
Simplify(self) == SimplifyFrom(self, 0)

----------------------------------------------------------------------------
(* The values the operations are run on *)

XR == ObR(X)

F == Box("f", <<X>>, <<Y>>)

G == Box("g", <<Y>>, <<X>>)

W == Box("w", <<X>>, <<X, Y>>)

H == Box("h", <<Y>>, <<Z>>)

\* the type sequences handed to id, swap, spiders, cups and caps
Tys == {<<>>, <<X>>, <<Y>>, <<XR>>, <<X, Y>>, <<X, X>>}

\* the label of a declared spider that no wire refers to, larger than
\* every label of a wire
ScalarLabel == MaxPorts + 3

\* The label a caller writes for the k-th spider of a raw wires tuple:
\* 1, 4, 0, 3, 6, 2, 5, neither increasing nor starting at 0.
RawLabel(k) == (3 * k + 1) % 7

RECURSIVE Partitions(_)
\* the wirings of n ports: every way to share spiders among n ports, the
\* k-th spider met along the ports written k
Partitions(n) ==
    IF n = 0 THEN {<<>>}
    ELSE UNION {{Append(s, k) : k \in 0..Cardinality(Range(s))} : s \in Partitions(n - 1)}

\* the arguments of one call of a constructor or class method
Call(dom, cod, boxes, wires, scalars, n_in, n_out) ==
    [dom |-> dom, cod |-> cod, boxes |-> boxes, wires |-> wires,
     scalars |-> scalars, n_in |-> n_in, n_out |-> n_out]

NoCall == Call(<<>>, <<>>, <<>>, <<>>, 0, 0, 0)

\* What the decorator of from_callable holds while the decorated function
\* runs: its arguments dom and cod, the boxes applied so far with the
\* spiders passed to them and the spiders of their outputs (the box nodes
\* of the graph and their edges), and the types of the spider nodes
Decorator(dom, cod, box_nodes, spider_nodes) ==
    [dom |-> dom, cod |-> cod, box_nodes |-> box_nodes, spider_nodes |-> spider_nodes]

NoDecorator == Decorator(<<>>, <<>>, <<>>, <<>>)

\* The raw constructor calls: for every shape within MaxPorts ports, every
\* wiring of its ports in raw labels and two wires tuples of a wrong
\* length; spider_types left out (scalars = 0) or given as a mapping that
\* also declares one unreferenced spider (scalars = 1, for the shapes
\* without boxes).
RawCalls ==
    UNION {
        LET n == Len(Ports(d, c, b))
        IN  IF n > MaxPorts THEN {}
            ELSE {Call(d, c, b, [p \in 1..Len(w) |-> RawLabel(w[p])], s, 0, 0) :
                    w \in Partitions(n), s \in IF b = <<>> THEN {0, 1} ELSE {0}}
                 \cup {Call(d, c, b, [p \in 1..m |-> 0], 0, 0, 0) : m \in {n - 1, n + 1} \ {-1}}
        : d \in {<<>>, <<X>>, <<XR>>, <<X, Y>>}, c \in {<<>>, <<X>>, <<Y>>},
          b \in {<<>>, <<F>>, <<W>>, <<F, G>>}}

\* the offsets argument of a raw call: box k at offset k
RawOffsets(r) == [k \in 1..Len(r.boxes) |-> k - 1]

\* the spider_types argument of a raw call
RawTypes(r) ==
    IF r.scalars = 0 THEN NoTypes
    ELSE LET ports == Ports(r.dom, r.cod, r.boxes)
         IN MapTypes([s \in Range(r.wires) \cup {ScalarLabel} |->
                        IF s = ScalarLabel THEN Y
                        ELSE ports[LastPos(r.wires, s)].obj])

\* the hypergraphs passed as the other operand of then
Operands ==
    {Swap(<<Y>>, <<X>>).val,
     Spiders(1, 2, <<X>>).val, Spiders(2, 1, <<X>>).val, Spiders(0, 0, <<Y>>).val,
     FromBox(F).val, FromBox(G).val,
     Cups(<<X>>, <<XR>>).val, Caps(<<X>>, <<XR>>).val}

\* the operands of a call whose receiver or argument is h: Operands and the
\* identities on the boundaries of h
OperandsFor(h) == Operands \cup {Id(h.dom).val, Id(h.cod).val}

\* the hypergraphs passed as the other operand of tensor
TensorOperands ==
    {Swap(<<Y>>, <<X>>).val, Spiders(1, 2, <<X>>).val, Spiders(0, 0, <<Y>>).val,
     FromBox(F).val, FromBox(H).val, Cups(<<X>>, <<XR>>).val}

\* the operations that build a value from their arguments alone
Constructors == {"construct", "id", "swap", "spiders", "cups", "caps", "from_box"}

----------------------------------------------------------------------------
(* The state machine: one current hypergraph, the last operation, its     *)
(* operands and its outcome                                               *)

Init ==
    /\ cur = EmptyH
    /\ op = "init"
    /\ lhs = EmptyH
    /\ rhs = EmptyH
    /\ raw = NoCall
    /\ err = "none"
    /\ glued = NoGlue
    /\ out = NoOut
    /\ ar_call = "absent"
    /\ decorator = NoDecorator

\* One call: the result replaces the current value; an exception leaves
\* the caller with the value it had. glued is the call of pushout made on
\* the way, if any.
Step(name, self, other, call, result) ==
    /\ glued' = IF name = "then" /\ Composable(self, other)
                THEN Glue(NSpiders(self), NSpiders(other),
                          SelfBoundary(self), OtherBoundary(other))
                ELSE NoGlue
    /\ op' = name
    /\ lhs' = self
    /\ rhs' = other
    /\ raw' = call
    /\ err' = result.err
    /\ cur' = IF result.err = "none" THEN result.val ELSE cur
    /\ out' = NoOut
    /\ UNCHANGED <<ar_call, decorator>>

\* A class method builds a value from its arguments alone, so the model
\* calls it from the initial state.
Construct(r) ==
    /\ op = "init"
    /\ Step("construct", EmptyH, EmptyH, r,
            HypergraphInit(r.dom, r.cod, r.boxes, r.wires, RawTypes(r), RawOffsets(r)))

MakeId(t) ==
    /\ op = "init"
    /\ Step("id", EmptyH, EmptyH, Call(t, t, <<>>, <<>>, 0, 0, 0), Id(t))

MakeSwap(left, right) ==
    /\ op = "init"
    /\ Step("swap", EmptyH, EmptyH, Call(left, right, <<>>, <<>>, 0, 0, 0),
            Swap(left, right))

MakeSpiders(n_legs_in, n_legs_out, typ) ==
    /\ op = "init"
    /\ Step("spiders", EmptyH, EmptyH,
            Call(typ, typ, <<>>, <<>>, 0, n_legs_in, n_legs_out),
            Spiders(n_legs_in, n_legs_out, typ))

MakeCups(left, right) ==
    /\ op = "init"
    /\ Step("cups", EmptyH, EmptyH, Call(left, right, <<>>, <<>>, 0, 0, 0),
            Cups(left, right))

MakeCaps(left, right) ==
    /\ op = "init"
    /\ Step("caps", EmptyH, EmptyH, Call(left, right, <<>>, <<>>, 0, 0, 0),
            Caps(left, right))

MakeFromBox(box) ==
    /\ op = "init"
    /\ Step("from_box", EmptyH, EmptyH, Call(box.dom, box.cod, <<box>>, <<>>, 0, 0, 0),
            FromBox(box))

\* pushout(m, n, left_boundary, right_boundary) called on its own
CallPushout(m, n, left_boundary, right_boundary) ==
    /\ op = "init"
    /\ op' = "pushout"
    /\ glued' = Glue(m, n, left_boundary, right_boundary)
    /\ UNCHANGED <<cur, lhs, rhs, raw, err, out, ar_call, decorator>>

\* self >> other
DoThen(self, other) ==
    /\ op \in Constructors
    /\ err = "none"
    /\ Step("then", self, other, NoCall, Then(self, other))

\* self @ other
DoTensor(self, other) ==
    /\ op \in Constructors
    /\ err = "none"
    /\ Step("tensor", self, other, NoCall, Tensor(self, other))

\* cur[::-1]
DoDagger ==
    /\ op \in Constructors
    /\ err = "none"
    /\ Step("dagger", cur, EmptyH, NoCall, Dagger(cur))

\* cur.r
DoRotate ==
    /\ op \in Constructors
    /\ err = "none"
    /\ Step("rotate", cur, EmptyH, NoCall, Rotate(cur))

\* cur.interchange(i, j)
DoInterchange(i, j) ==
    /\ op \in Constructors
    /\ err = "none"
    /\ Step("interchange", cur, EmptyH, Call(<<>>, <<>>, <<>>, <<>>, 0, i, j),
            Interchange(cur, i, j))

Next ==
    \/ \E r \in RawCalls : Construct(r)
    \/ \E t \in Tys : MakeId(t)
    \/ \E left \in Tys, right \in Tys : MakeSwap(left, right)
    \/ \E a \in 0..2, b \in 0..2, t \in Tys : MakeSpiders(a, b, t)
    \/ \E left \in Tys, right \in Tys : MakeCups(left, right)
    \/ \E left \in Tys, right \in Tys : MakeCaps(left, right)
    \/ \E box \in {F, G, W, H} : MakeFromBox(box)
    \/ \E m \in 1..MaxUniverse, n \in 1..MaxUniverse, k \in 0..MaxBoundary :
          \E left_boundary \in [1..k -> 0..(m - 1)], right_boundary \in [1..k -> 0..(n - 1)] :
              CallPushout(m, n, left_boundary, right_boundary)
    \/ \E g \in OperandsFor(cur) : DoThen(cur, g)
    \/ \E g \in OperandsFor(cur) : DoThen(g, cur)
    \/ \E g \in TensorOperands : DoTensor(cur, g)
    \/ \E g \in TensorOperands : DoTensor(g, cur)
    \/ DoDagger
    \/ DoRotate
    \/ \E i \in 0..(Len(cur.boxes) - 1), j \in 0..(Len(cur.boxes) - 1) : DoInterchange(i, j)

Spec == Init /\ [][Next]_vars


----------------------------------------------------------------------------
(* The second state machine: the predicates, the normalisation passes and *)
(* the translation to diagrams, each run once on a constructed value      *)

\* One call that returns a value which is not a hypergraph: the current
\* hypergraph stays, the value returned is kept in out.
Observe(name, self, call, result) ==
    /\ glued' = NoGlue
    /\ op' = name
    /\ lhs' = self
    /\ rhs' = EmptyH
    /\ raw' = call
    /\ err' = result.err
    /\ cur' = cur
    /\ out' = result.val
    /\ UNCHANGED <<ar_call, decorator>>

\* a box f: x -> x
Endo == Box("f", <<X>>, <<X>>)

\* The hypergraphs of the docstrings that the raw calls leave out: the
\* transpose of the box f: x -> x, whose input is wired to the output of f
\* and whose output to the input of f.
ExampleCalls ==
    {Call(<<X>>, <<X>>, <<Endo>>, <<0, 1, 0, 1>>, 0, 0, 0)}

\* a box with two inputs, m: x @ y -> Ty()
M == Box("m", <<X, Y>>, <<>>)

\* Every wiring of some shapes with boxes of two inputs or two outputs,
\* where to_diagram has wires to cross before a box and before the
\* outputs.
PlanarCalls ==
    UNION {
        LET n == Len(Ports(s[1], s[2], s[3]))
        IN  IF n > MaxPorts THEN {}
            ELSE {Call(s[1], s[2], s[3], [p \in 1..Len(w) |-> RawLabel(w[p])], 0, 0, 0) :
                    w \in Partitions(n)}
        : s \in {<<<<Y, X>>, <<>>, <<M>>>>,
                 <<<<X, X, Y>>, <<X>>, <<M>>>>,
                 <<<<Y, Y>>, <<>>, <<G, M>>>>,
                 <<<<X>>, <<Y, X>>, <<W>>>>}}

\* the constructor called without offsets
ConstructPlain(r) ==
    /\ op = "init"
    /\ Step("construct", EmptyH, EmptyH, r,
            HypergraphInit(r.dom, r.cod, r.boxes, r.wires, RawTypes(r), <<>>))

\* cur.bijection
DoBijection ==
    /\ op \in Constructors
    /\ err = "none"
    /\ Observe("bijection", cur, NoCall, Bijection(cur))

\* Hypergraph.from_graph(cur.to_graph())
DoFromGraph ==
    /\ op \in Constructors
    /\ err = "none"
    /\ Step("from_graph", cur, EmptyH, NoCall, FromGraph(ToGraph(cur)))

\* cur.make_bijective()
DoMakeBijective ==
    /\ op \in Constructors
    /\ err = "none"
    /\ Step("make_bijective", cur, EmptyH, raw, MakeBijective(cur))

\* cur.make_monogamous()
DoMakeMonogamous ==
    /\ op \in Constructors
    /\ err = "none"
    /\ Step("make_monogamous", cur, EmptyH, raw, MakeMonogamous(cur))

\* cur.make_polygynous()
DoMakePolygynous ==
    /\ op \in Constructors
    /\ err = "none"
    /\ Step("make_polygynous", cur, EmptyH, raw, MakePolygynous(cur))

\* cur.make_causal()
DoMakeCausal ==
    /\ op \in Constructors
    /\ err = "none"
    /\ Step("make_causal", cur, EmptyH, raw, MakeCausal(cur))

\* cur.to_diagram(): the diagram returned and the frontier it ended with,
\* and the history of the run up to the return or the exception
DoToDiagram ==
    /\ op \in Constructors
    /\ err = "none"
    /\ LET Returned(result) ==
               IF result.err # "none"
               THEN [err |-> result.err, val |-> NoOut @@ [log |-> result.log]]
               ELSE ReturnOut(Out(result.scan, result.diagram) @@ [log |-> result.log])
       IN Observe("to_diagram", cur, raw, Returned(ToDiagram(cur)))

\* Hypergraph.from_diagram(cur.to_diagram()), on the hypergraphs
\* expressible without cups, caps or traces and on those of the docstring:
\* the diagram in between is kept
DoBackAndForth ==
    /\ op \in Constructors
    /\ err = "none"
    /\ IsExpressible(cur) \/ IsDocExample(cur)
    /\ LET Back(planar) ==
               IF planar.err # "none" THEN Raise(planar.err)
               ELSE FromDiagram(planar.diagram)
           Kept(planar) ==
               IF planar.err # "none" THEN NoOut
               ELSE Out(planar.scan, planar.diagram)
           Forth(planar, result) ==
               /\ op' = "back_n_forth"
               /\ lhs' = cur
               /\ rhs' = EmptyH
               /\ raw' = raw
               /\ glued' = NoGlue
               /\ err' = result.err
               /\ cur' = IF result.err = "none" THEN result.val ELSE cur
               /\ out' = Kept(planar)
               /\ UNCHANGED <<ar_call, decorator>>
           BackAndForth(planar) == Forth(planar, Back(planar))
       IN BackAndForth(ToDiagram(cur))

\* the boxes f: Ty() -> x and g: x -> Ty() of the docstring of simplify
Source == Box("f", <<>>, <<X>>)

Sink == Box("g", <<X>>, <<>>)

\* (f >> g).interchange(0, 1) and f >> g of the docstring of simplify, and
\* two boxes side by side in either order
SimplifyCalls ==
    {Call(<<>>, <<>>, <<Sink, Source>>, <<0, 0>>, 0, 0, 0),
     Call(<<>>, <<>>, <<Source, Sink>>, <<0, 0>>, 0, 0, 0),
     Call(<<X>>, <<X>>, <<Source, Sink>>, <<0, 1, 0, 1>>, 0, 0, 0),
     Call(<<X>>, <<X>>, <<Sink, Source>>, <<0, 0, 1, 1>>, 0, 0, 0)}

\* cur.simplify(): the number of interchanges applied is kept in out
DoSimplify ==
    /\ op \in Constructors
    /\ err = "none"
    /\ LET Returned(result) ==
               /\ op' = "simplify"
               /\ lhs' = cur
               /\ rhs' = EmptyH
               /\ raw' = raw
               /\ glued' = NoGlue
               /\ err' = result.err
               /\ cur' = IF result.err = "none" THEN result.val ELSE cur
               /\ out' = Out(<<result.steps>>, EmptyDiagram)
               /\ UNCHANGED <<ar_call, decorator>>
       IN Returned(Simplify(cur))

\* the largest offset given to a box
MaxHint == 3

\* The constructor calls made with offsets: a box with one input, a box
\* with none, and a box with two inputs whose wires arrive crossed or next
\* to a wire that passes by.
HintedCalls ==
    {Call(<<X>>, <<Y>>, <<F>>, <<0, 0, 1, 1>>, 0, 0, 0),
     Call(<<>>, <<X>>, <<Source>>, <<0, 0>>, 0, 0, 0),
     Call(<<Y, X>>, <<>>, <<M>>, <<0, 1, 1, 0>>, 0, 0, 0),
     Call(<<X, X, Y>>, <<X>>, <<M>>, <<0, 1, 2, 1, 2, 0>>, 0, 0, 0)}

\* the constructor called with every box at the offset hint
ConstructHinted(r, hint) ==
    /\ op = "init"
    /\ Step("construct", EmptyH, EmptyH, r,
            HypergraphInit(r.dom, r.cod, r.boxes, r.wires, RawTypes(r),
                           [k \in 1..Len(r.boxes) |-> hint]))

NextNormal ==
    \/ \E r \in RawCalls : Construct(r)
    \/ \E r \in RawCalls : ConstructPlain(r)
    \/ \E r \in ExampleCalls \cup PlanarCalls : ConstructPlain(r)
    \/ \E left \in {<<X>>, <<X, Y>>}, right \in {<<Y>>, <<X, X>>} : MakeSwap(left, right)
    \/ \E a \in 0..3, b \in 0..3, t \in {<<X>>, <<X, Y>>} : MakeSpiders(a, b, t)
    \/ \E box \in {F, G, W, H} : MakeFromBox(box)
    \/ DoBijection
    \/ DoFromGraph
    \/ DoMakeBijective
    \/ DoMakeMonogamous
    \/ DoMakePolygynous
    \/ DoMakeCausal

SpecNormal == Init /\ [][NextNormal]_vars

\* The constructors, to_diagram and the round trip through from_diagram
NextPlanar ==
    \/ \E r \in RawCalls : Construct(r)
    \/ \E r \in RawCalls : ConstructPlain(r)
    \/ \E r \in ExampleCalls \cup PlanarCalls : ConstructPlain(r)
    \/ \E left \in {<<X>>, <<X, Y>>}, right \in {<<Y>>, <<X, X>>} : MakeSwap(left, right)
    \/ \E a \in 0..3, b \in 0..3, t \in {<<X>>, <<X, Y>>} : MakeSpiders(a, b, t)
    \/ \E box \in {F, G, W, H} : MakeFromBox(box)
    \/ \E r \in HintedCalls, hint \in 0..MaxHint : ConstructHinted(r, hint)
    \/ DoToDiagram
    \/ DoBackAndForth

SpecPlanar == Init /\ [][NextPlanar]_vars

\* The constructor and simplify: simplify plans every interchange of every
\* hypergraph it goes through, so it is explored on its own.
NextSimplify ==
    \/ \E r \in RawCalls : Construct(r)
    \/ \E r \in RawCalls : ConstructPlain(r)
    \/ \E r \in ExampleCalls \cup PlanarCalls \cup SimplifyCalls : ConstructPlain(r)
    \/ DoSimplify

SpecSimplify == Init /\ [][NextSimplify]_vars


----------------------------------------------------------------------------
(* from_callable: the decorated function applies boxes to spider nodes    *)
(* through the __call__ attribute the decorator puts on the box class     *)

\* the number of boxes the decorated function applies at most
MaxCalls == 2

\* the lists of at most two of the first n spider nodes
NodeLists(n) ==
    {<<>>} \cup {<<a>> : a \in 0..(n - 1)} \cup {<<a, b>> : a \in 0..(n - 1), b \in 0..(n - 1)}

\* apply(box, *inputs): AxiomError for a wrong number of inputs or an
\* input of another type than the port of box.dom it goes to; otherwise
\* the box node with its inputs and one new spider node per output
Apply(self, box, inputs) ==
    IF Len(inputs) # Len(box.dom) THEN [err |-> "AxiomError", val |-> self]
    ELSE IF \E i \in 1..Len(box.dom) : self.spider_nodes[inputs[i] + 1] # box.dom[i]
    THEN [err |-> "AxiomError", val |-> self]
    ELSE [err |-> "none",
          val |-> Decorator(self.dom, self.cod,
                    Append(self.box_nodes,
                           [box |-> box, inputs |-> inputs,
                            outputs |-> TupleRange(Len(self.spider_nodes),
                                                   Len(self.spider_nodes) + Len(box.cod))]),
                    self.spider_nodes \o box.cod)]

\* cls.from_graph(graph) for the graph of the decorator once the function
\* has returned the spider nodes outputs: the box nodes carry the offset
\* None they were built with, the wires are the spider nodes of the inputs,
\* of the ports of each box and of the outputs
FromCallableGraph(self, outputs) ==
    LET boxes == [k \in 1..Len(self.box_nodes) |-> self.box_nodes[k].box]
        offsets == [k \in 1..Len(self.box_nodes) |-> NoOffset]
        cod == [i \in 1..Len(outputs) |-> self.spider_nodes[outputs[i] + 1]]
        wires == TupleRange(0, Len(self.dom))
                 \o Flatten([k \in 1..Len(self.box_nodes) |->
                        self.box_nodes[k].inputs \o self.box_nodes[k].outputs])
                 \o outputs
    IN HypergraphInit(self.dom, cod, boxes, wires, SeqTypes(self.spider_nodes), offsets)

\* the decorator from its line del cls.category.ar.__call__ on: AxiomError
\* unless the cod of the hypergraph read from the graph is the cod asked
\* for
Decorated(self, outputs) ==
    LET Checked(result) ==
            IF result.err # "none" THEN result
            ELSE IF result.val.cod # self.cod THEN Raise("AxiomError")
            ELSE result
    IN Checked(FromCallableGraph(self, outputs))

\* Hypergraph.from_callable(dom, cod)(func) up to the call of func: apply
\* is put on the box class and the input spiders are made
Decorate(dom, cod) ==
    /\ op = "init"
    /\ op' = "decorator"
    /\ ar_call' = "apply"
    /\ decorator' = Decorator(dom, cod, <<>>, dom)
    /\ raw' = Call(dom, cod, <<>>, <<>>, 0, 0, 0)
    /\ UNCHANGED <<cur, lhs, rhs, err, glued, out>>

\* func calls box(*inputs): an exception of apply goes through func and
\* the decorator, which has no handler
CallBox(box, inputs) ==
    /\ op = "decorator"
    /\ Len(decorator.box_nodes) < MaxCalls
    /\ LET result == Apply(decorator, box, inputs)
       IN /\ op' = IF result.err = "none" THEN "decorator" ELSE "from_callable"
          /\ err' = result.err
          /\ decorator' = result.val
    /\ UNCHANGED <<cur, lhs, rhs, raw, glued, out, ar_call>>

\* func returns the spider nodes outputs: the decorator takes apply off the
\* box class, reads the hypergraph from the graph and checks its cod
ReturnNodes(outputs) ==
    /\ op = "decorator"
    /\ op' = "from_callable"
    /\ ar_call' = "absent"
    /\ LET result == Decorated(decorator, outputs)
       IN /\ err' = result.err
          /\ cur' = IF result.err = "none" THEN result.val ELSE cur
    /\ UNCHANGED <<lhs, rhs, raw, glued, out, decorator>>

\* from_callable with the functions that apply up to MaxCalls boxes
NextCallable ==
    \/ \E dom \in {<<>>, <<X>>, <<X, Y>>}, cod \in {<<X>>, <<Y>>, <<X, Y>>} : Decorate(dom, cod)
    \/ \E box \in {F, G, W, M} : \E inputs \in NodeLists(Len(decorator.spider_nodes)) :
          CallBox(box, inputs)
    \/ \E outputs \in NodeLists(Len(decorator.spider_nodes)) : ReturnNodes(outputs)

SpecCallable == Init /\ [][NextCallable]_vars
----------------------------------------------------------------------------
(* What the properties below read off a diagram *)

\* the boxes of a diagram that are not swaps, in order
NonSwapBoxes(diagram) ==
    LET IsNoSwap(layer) == layer.box.name # "Swap"
        kept == SelectSeq(diagram.inside, IsNoSwap)
    IN [k \in 1..Len(kept) |-> kept[k].box]

\* the layers of a diagram compose: the first starts from dom, each one from
\* where the one before ended, and the last ends on cod
LayersCompose(diagram) ==
    LET from(k) == diagram.inside[k].left \o diagram.inside[k].box.dom
                   \o diagram.inside[k].right
        to(k) == diagram.inside[k].left \o diagram.inside[k].box.cod
                 \o diagram.inside[k].right
        n == Len(diagram.inside)
    IN  IF n = 0 THEN diagram.dom = diagram.cod
        ELSE /\ from(1) = diagram.dom
             /\ to(n) = diagram.cod
             /\ \A k \in 1..(n - 1) : to(k) = from(k + 1)

----------------------------------------------------------------------------
(* Identity laws *)

\* C1: composing with the identity on the matching boundary changes
\* nothing: whenever the last call was f >> id(f.cod) it returned a
\* hypergraph equal to f under ==, and whenever it was id(f.dom) >> f
\* likewise.
C1_IdentityLaws ==
    op = "then" =>
        /\ rhs = Id(lhs.cod).val => err = "none" /\ Eq(cur, lhs) /\ Eq(lhs, cur)
        /\ lhs = Id(rhs.dom).val => err = "none" /\ Eq(cur, rhs) /\ Eq(rhs, cur)

\* f >> id(f.cod) was computed for an f with boxes, a codomain of two wires
\* or more and a spider shared by several ports
C1_Witness ==
    /\ op = "then"
    /\ rhs = Id(lhs.cod).val
    /\ err = "none"
    /\ lhs.boxes # <<>>
    /\ lhs.dom # <<>>
    /\ lhs.cod # <<>>
    /\ NSpiders(lhs) < Len(lhs.wires) - 1
    /\ Eq(cur, lhs)

----------------------------------------------------------------------------
(* Associativity *)

\* the two sides agree on everything the claim lists and are equal under ==
SameUnderEq(a, b) ==
    /\ a.err = "none"
    /\ b.err = "none"
    /\ Eq(a.val, b.val)
    /\ a.val.dom = b.val.dom
    /\ a.val.cod = b.val.cod
    /\ a.val.boxes = b.val.boxes
    /\ NSpiders(a.val) = NSpiders(b.val)

\* C2: sequential and parallel composition are associative: after f >> g
\* returned, (f >> g) >> h and f >> (g >> h) are equal under == and have
\* the same dom, cod, boxes and n_spiders for every composable h; after
\* f @ g returned, the same holds of (f @ g) @ h and f @ (g @ h) for
\* every h.
C2_Associativity ==
    /\ op = "then" /\ err = "none" =>
          \A h \in OperandsFor(rhs) :
              rhs.cod = h.dom =>
                  SameUnderEq(Then(cur, h), Then(lhs, Then(rhs, h).val))
    /\ op = "tensor" /\ err = "none" =>
          \A h \in TensorOperands :
              SameUnderEq(Tensor(cur, h), Tensor(lhs, Tensor(rhs, h).val))

\* f >> g was computed from two hypergraphs with boxes, and some h with a
\* box composes after it
C2_Witness ==
    /\ op = "then"
    /\ err = "none"
    /\ lhs.boxes # <<>>
    /\ rhs.boxes # <<>>
    /\ NSpiders(cur) < NSpiders(lhs) + NSpiders(rhs)
    /\ \E h \in Operands :
          /\ rhs.cod = h.dom
          /\ h.boxes # <<>>
          /\ SameUnderEq(Then(cur, h), Then(lhs, Then(rhs, h).val))

\* f @ g was computed from two hypergraphs with boxes and tensored with a
\* third
C2_WitnessTensor ==
    /\ op = "tensor"
    /\ err = "none"
    /\ lhs.boxes # <<>>
    /\ rhs.boxes # <<>>
    /\ \E h \in TensorOperands :
          /\ h.boxes # <<>>
          /\ SameUnderEq(Tensor(cur, h), Tensor(lhs, Tensor(rhs, h).val))

----------------------------------------------------------------------------
(* Interchange law *)

\* (f @ id(c)) >> (id(b) @ g) for f : a -> b and g : c -> d
BoxesOfFirst(f, g) ==
    Then(Tensor(f, Id(g.dom).val).val, Tensor(Id(f.cod).val, g).val)

\* (id(a) @ g) >> (f @ id(d)) for f : a -> b and g : c -> d
BoxesOfSecond(f, g) ==
    Then(Tensor(Id(f.dom).val, g).val, Tensor(f, Id(g.cod).val).val)

\* C3: tensor and then satisfy the interchange law under ==: after f @ g
\* returned, (f @ id(c)) >> (id(b) @ g), (id(a) @ g) >> (f @ id(d)) and
\* f @ g are pairwise equal.
C3_InterchangeLaw ==
    LET PairwiseEqual(first, second) ==
            /\ first.err = "none"
            /\ second.err = "none"
            /\ Eq(first.val, second.val)
            /\ Eq(second.val, cur)
            /\ Eq(first.val, cur)
    IN  op = "tensor" =>
            /\ err = "none"
            /\ PairwiseEqual(BoxesOfFirst(lhs, rhs), BoxesOfSecond(lhs, rhs))

\* f @ g was computed from an f and a g that both have boxes, so the two
\* composites list the boxes in different orders, and f has wires on both
\* boundaries
C3_Witness ==
    /\ op = "tensor"
    /\ err = "none"
    /\ lhs.boxes # <<>>
    /\ rhs.boxes # <<>>
    /\ lhs.dom # <<>>
    /\ lhs.cod # <<>>
    /\ BoxesOfSecond(lhs, rhs).val.boxes # cur.boxes
    /\ BoxesOfFirst(lhs, rhs).val.boxes = cur.boxes
    /\ Eq(BoxesOfSecond(lhs, rhs).val, cur)

----------------------------------------------------------------------------
(* Dagger *)

\* C4: dagger is an involution: after f[::-1] returned, its dagger is
\* equal to f under == and has the dom, cod, boxes (in order), canonical
\* wires and offsets of f; the boxes of the model satisfy
\* box.dagger().dagger() == box.
C4_DaggerInvolution ==
    op = "dagger" =>
        /\ err = "none"
        /\ \A k \in DOMAIN lhs.boxes : BoxDagger(BoxDagger(lhs.boxes[k])) = lhs.boxes[k]
        /\ LET twice == Dagger(cur)
           IN /\ twice.err = "none"
              /\ Eq(twice.val, lhs)
              /\ twice.val.dom = lhs.dom
              /\ twice.val.cod = lhs.cod
              /\ twice.val.boxes = lhs.boxes
              /\ twice.val.wires = lhs.wires
              /\ twice.val.offsets = lhs.offsets

\* the dagger of an f with two boxes at different offsets, different dom
\* and cod and a dagger that is not f itself
C4_Witness ==
    /\ op = "dagger"
    /\ err = "none"
    /\ Len(lhs.boxes) = 2
    /\ lhs.offsets # Rev(lhs.offsets)
    /\ lhs.dom # lhs.cod
    /\ cur.wires # lhs.wires
    /\ cur.boxes # lhs.boxes
    /\ Dagger(cur).val.wires = lhs.wires

----------------------------------------------------------------------------
(* Swap *)

\* C5: after swap(x, y) returned, the result has no boxes, exactly
\* len(x @ y) spiders and wires (0, ..., n-1) + (len(x), ..., n-1) +
\* (0, ..., len(x)-1) for n = len(x @ y), (0, 1, 1, 0) for two atomic
\* types, and swap(x, y) >> swap(y, x) is equal to id(x @ y) under ==.
C5_SwapSelfInverse ==
    op = "swap" =>
        LET x == raw.dom
            y == raw.cod
            n == Len(x) + Len(y)
            back == Then(cur, Swap(y, x).val)
        IN /\ err = "none"
           /\ cur.dom = x \o y
           /\ cur.cod = y \o x
           /\ cur.boxes = <<>>
           /\ NSpiders(cur) = n
           /\ cur.wires = TupleRange(0, n) \o TupleRange(Len(x), n) \o TupleRange(0, Len(x))
           /\ Len(x) = 1 /\ Len(y) = 1 => cur.wires = <<0, 1, 1, 0>>
           /\ back.err = "none"
           /\ Eq(back.val, Id(x \o y).val)
           /\ Eq(Id(x \o y).val, back.val)

\* swap(x, y) was computed for an x and a y of different lengths and
\* different types, so that it is not an identity
C5_Witness ==
    /\ op = "swap"
    /\ err = "none"
    /\ Len(raw.dom) = 1
    /\ Len(raw.cod) = 2
    /\ raw.cod # raw.dom \o raw.dom
    /\ cur.wires = <<0, 1, 2, 1, 2, 0>>
    /\ ~Eq(cur, Id(cur.dom).val)
    /\ Eq(Then(cur, Swap(raw.cod, raw.dom).val).val, Id(raw.dom \o raw.cod).val)

----------------------------------------------------------------------------
(* Boundary check of then *)

\* C6: self.then(other) raises AxiomError exactly when self.cod differs
\* from other.dom, and then no hypergraph is built: the caller keeps the
\* value it had. Otherwise the call returns a hypergraph with dom =
\* self.dom, cod = other.cod, boxes = self.boxes + other.boxes and
\* offsets = self.offsets + other.offsets.
C6_ThenBoundaryCheck ==
    op = "then" =>
        /\ err = "AxiomError" <=> lhs.cod # rhs.dom
        /\ err # "none" => cur \in {lhs, rhs} /\ Then(lhs, rhs).val = EmptyH
        /\ lhs.cod = rhs.dom =>
              /\ err = "none"
              /\ cur = Then(lhs, rhs).val
              /\ cur.dom = lhs.dom
              /\ cur.cod = rhs.cod
              /\ cur.boxes = lhs.boxes \o rhs.boxes
              /\ cur.offsets = lhs.offsets \o rhs.offsets

\* then was refused for two boundaries of the same length that differ only
\* in the winding of one type (x against its adjoint)
C6_Witness ==
    /\ op = "then"
    /\ err = "AxiomError"
    /\ lhs.cod # <<>>
    /\ Len(lhs.cod) = Len(rhs.dom)
    /\ \A i \in DOMAIN lhs.cod : lhs.cod[i].name = rhs.dom[i].name
    /\ lhs.boxes \o rhs.boxes # <<>>
    /\ cur \in {lhs, rhs}

----------------------------------------------------------------------------
(* Well-formedness *)

RECURSIVE BoxPortCount(_)
\* sum over boxes of len(box.dom) + len(box.cod)
BoxPortCount(boxes) ==
    IF boxes = <<>> THEN 0
    ELSE Len(Head(boxes).dom) + Len(Head(boxes).cod) + BoxPortCount(Tail(boxes))

RECURSIVE BoxPortTypes(_)
\* the declared types of the box ports, box by box, dom before cod
BoxPortTypes(boxes) ==
    IF boxes = <<>> THEN <<>>
    ELSE Head(boxes).dom \o Head(boxes).cod \o BoxPortTypes(Tail(boxes))

\* the two conditions of a well-formed hypergraph
WellFormed(h) ==
    LET declared == h.dom \o BoxPortTypes(h.boxes) \o h.cod
    IN /\ Len(h.wires) = Len(h.dom) + BoxPortCount(h.boxes) + Len(h.cod)
       /\ \A p \in DOMAIN h.wires :
             /\ h.wires[p] \in 0..(NSpiders(h) - 1)
             /\ LET typ == h.spider_types[h.wires[p] + 1]
                IN declared[p] = typ \/ declared[p] = ObR(typ)

\* two ports of a raw call share a label but have types of different names
RawMismatch(r) ==
    LET declared == r.dom \o BoxPortTypes(r.boxes) \o r.cod
    IN \E p \in DOMAIN r.wires, q \in DOMAIN r.wires :
          r.wires[p] = r.wires[q] /\ declared[p].name # declared[q].name

\* C7: every hypergraph value held after any constructor or operator
\* (raw construction, id, swap, spiders, cups, caps, from_box, then,
\* tensor, dagger, rotate, interchange) is well-formed: len(wires) is
\* len(dom) plus the box ports plus len(cod), and every port has the type
\* of its spider or the adjoint of that type. The raw constructor raises
\* ValueError exactly for a wires tuple of the wrong length and AxiomError
\* exactly for a tuple of the right length with a port/spider type
\* mismatch.
C7_WellFormed ==
    /\ WellFormed(cur)
    /\ op = "construct" =>
          LET n == Len(raw.dom) + BoxPortCount(raw.boxes) + Len(raw.cod)
          IN /\ err = "ValueError" <=> Len(raw.wires) # n
             /\ err = "AxiomError" <=> Len(raw.wires) = n /\ RawMismatch(raw)
             /\ err \in {"none", "ValueError", "AxiomError"}

\* the constructor accepted a hypergraph with a box in which one spider
\* joins a port of type x and a port of the adjoint of x
C7_Witness ==
    /\ op = "construct"
    /\ err = "none"
    /\ cur.boxes # <<>>
    /\ WellFormed(cur)
    /\ \E p \in DOMAIN cur.wires, q \in DOMAIN cur.wires :
          /\ cur.wires[p] = cur.wires[q]
          /\ Ports(cur.dom, cur.cod, cur.boxes)[p].obj = X
          /\ Ports(cur.dom, cur.cod, cur.boxes)[q].obj = XR

----------------------------------------------------------------------------
(* Canonical spider labelling *)

\* the largest entry of a sequence of naturals, -1 for the empty sequence
MaxOf(s) == IF s = <<>> THEN -1 ELSE CHOOSE x \in Range(s) : \A y \in Range(s) : y <= x

\* the spider ids in wires are 0, 1, 2, ... in order of first occurrence,
\* the scalar spiders come after them and every id is below n_spiders
Canonical(h) ==
    /\ \A p \in DOMAIN h.wires :
          /\ h.wires[p] >= 0
          /\ h.wires[p] <= 1 + MaxOf(SubSeq(h.wires, 1, p - 1))
    /\ h.wires # <<>> => h.wires[1] = 0
    /\ \A s \in 0..(NSpiders(h) - 1) :
          s \notin Range(h.wires) => \A r \in Range(h.wires) : r < s
    /\ \A p \in DOMAIN h.wires : h.wires[p] < NSpiders(h)

\* two renamings of the labels of a raw call, one keeping and one
\* reversing their order
Rename(k, label) == IF k = 1 THEN label + 10 ELSE 20 - label

\* the raw call r with every label renamed
Renamed(k, r) ==
    LET wires == [p \in DOMAIN r.wires |-> Rename(k, r.wires[p])]
        types == IF r.scalars = 0 THEN NoTypes
                 ELSE MapTypes([l \in {Rename(k, s) : s \in DOMAIN RawTypes(r).m} |->
                         RawTypes(r).m[CHOOSE s \in DOMAIN RawTypes(r).m : Rename(k, s) = l]])
    IN HypergraphInit(r.dom, r.cod, r.boxes, wires, types, RawOffsets(r))

\* C8: every hypergraph held after a constructor or operator is
\* canonically labelled (first-occurrence numbering of the spiders in
\* wires, scalar spiders after the referenced ones, ids below n_spiders);
\* constructing it again from its own dom, cod, boxes, wires and
\* spider_types gives the same wires and spider_types; and a raw call
\* whose labels are renamed gives the same wires.
C8_CanonicalLabelling ==
    /\ Canonical(cur)
    /\ LET again == HypergraphInit(cur.dom, cur.cod, cur.boxes, cur.wires,
                                   SeqTypes(cur.spider_types), cur.offsets)
       IN /\ again.err = "none"
          /\ again.val.wires = cur.wires
          /\ again.val.spider_types = cur.spider_types
    /\ op = "construct" /\ err = "none" =>
          \A k \in {1, 2} :
              /\ Renamed(k, raw).err = "none"
              /\ Renamed(k, raw).val.wires = cur.wires

\* the constructor relabelled a raw call with boxes whose labels were not
\* canonical and in which two ports share a spider
C8_Witness ==
    /\ op = "construct"
    /\ err = "none"
    /\ cur.boxes # <<>>
    /\ raw.wires # cur.wires
    /\ NSpiders(cur) >= 3
    /\ NSpiders(cur) < Len(cur.wires)
    /\ Canonical(cur)
    /\ Renamed(2, raw).val.wires = cur.wires

\* the constructor placed a declared spider that no wire refers to after
\* the referenced ones
C8_WitnessScalar ==
    /\ op = "construct"
    /\ err = "none"
    /\ raw.scalars = 1
    /\ NSpiders(cur) = Cardinality(Range(cur.wires)) + 1
    /\ Cardinality(Range(cur.wires)) >= 2
    /\ Canonical(cur)

----------------------------------------------------------------------------
(* Pushout *)

\* the points of the disjoint union of a call of pushout: the left
\* universe 0..m-1, then the right universe shifted by m
Points(g) == 0..(g.m + g.n - 1)

\* the id a call of pushout gave to a point of the disjoint union
ClassId(g, e) == IF e < g.m THEN g.left[e] ELSE g.right[e - g.m]

RECURSIVE Component(_, _)
\* the points related to a point of S by the smallest equivalence relation
\* that contains left_boundary[i] ~ m + right_boundary[i]
Component(g, S) ==
    LET step == S \cup {g.m + g.right_boundary[i] :
                          i \in {i \in DOMAIN g.left_boundary : g.left_boundary[i] \in S}}
                  \cup {g.left_boundary[i] :
                          i \in {i \in DOMAIN g.left_boundary :
                                    g.m + g.right_boundary[i] \in S}}
    IN IF step = S THEN S ELSE Component(g, step)

\* C9: for the last call of pushout (made by then or on its own), two
\* points of the disjoint union have the same class id exactly when the
\* smallest equivalence relation containing left_boundary[i] ~ m +
\* right_boundary[i] relates them; the ids are exactly 0..L-1 for L
\* classes and are numbered in order of first appearance along 0..m-1
\* followed by the right universe.
C9_PushoutCoequalizer ==
    /\ DOMAIN glued.left = 0..(glued.m - 1)
    /\ DOMAIN glued.right = 0..(glued.n - 1)
    /\ \A x \in Points(glued), y \in Points(glued) :
          ClassId(glued, x) = ClassId(glued, y) <=> y \in Component(glued, {x})
    /\ {ClassId(glued, e) : e \in Points(glued)}
          = 0..(Cardinality({Component(glued, {e}) : e \in Points(glued)}) - 1)
    /\ \A e \in Points(glued) :
          \A c \in 0..(ClassId(glued, e) - 1) :
              \E d \in 0..(e - 1) : ClassId(glued, d) = c

\* pushout was called with a repeated boundary point, merged two points of
\* the right universe through one of the left, and left a point of the
\* left universe alone after the merged class
C9_Witness ==
    /\ op \in {"then", "pushout"}
    /\ Len(glued.left_boundary) >= 2
    /\ Cardinality(Range(glued.left_boundary)) < Len(glued.left_boundary)
    /\ \E x \in 0..(glued.n - 1), y \in 0..(glued.n - 1) :
          x # y /\ glued.right[x] = glued.right[y]
    /\ \E a \in 0..(glued.m - 1) : a \notin Range(glued.left_boundary)
    /\ \A x \in Points(glued), y \in Points(glued) :
          ClassId(glued, x) = ClassId(glued, y) <=> y \in Component(glued, {x})

----------------------------------------------------------------------------
(* Tensor *)

\* the number of box ports of a hypergraph
BoxPorts(h) == Len(h.wires) - Len(h.dom) - Len(h.cod)

\* where port p of f (a position of f.wires) lies in the wires of f @ g
InLeft(f, g, p) ==
    IF p <= Len(f.dom) THEN p
    ELSE IF p <= Len(f.dom) + BoxPorts(f) THEN p + Len(g.dom)
    ELSE p + Len(g.dom) + BoxPorts(g)

\* where port q of g (a position of g.wires) lies in the wires of f @ g
InRight(f, g, q) ==
    IF q <= Len(g.dom) THEN Len(f.dom) + q
    ELSE IF q <= Len(g.dom) + BoxPorts(g) THEN Len(f.dom) + BoxPorts(f) + q
    ELSE Len(f.wires) + q

\* C10: after f @ g, the call returned a hypergraph with n_spiders =
\* f.n_spiders + g.n_spiders, dom = f.dom @ g.dom, cod = f.cod @ g.cod and
\* boxes = f.boxes + g.boxes, in which no port of f shares a spider with a
\* port of g and two ports of f (of g) share a spider exactly when they do
\* in f (in g); for the single boxes f : x -> y and h : y -> z the wires
\* are (0, 1, 0, 2, 1, 3, 2, 3) on 4 spiders. Operands with an empty
\* codomain or without box ports are included.
C10_TensorDisjointUnion ==
    op = "tensor" =>
        /\ err = "none"
        /\ NSpiders(cur) = NSpiders(lhs) + NSpiders(rhs)
        /\ cur.dom = lhs.dom \o rhs.dom
        /\ cur.cod = lhs.cod \o rhs.cod
        /\ cur.boxes = lhs.boxes \o rhs.boxes
        /\ Len(cur.wires) = Len(lhs.wires) + Len(rhs.wires)
        /\ \A p \in DOMAIN lhs.wires, q \in DOMAIN rhs.wires :
              cur.wires[InLeft(lhs, rhs, p)] # cur.wires[InRight(lhs, rhs, q)]
        /\ \A p \in DOMAIN lhs.wires, q \in DOMAIN lhs.wires :
              lhs.wires[p] = lhs.wires[q]
                  <=> cur.wires[InLeft(lhs, rhs, p)] = cur.wires[InLeft(lhs, rhs, q)]
        /\ \A p \in DOMAIN rhs.wires, q \in DOMAIN rhs.wires :
              rhs.wires[p] = rhs.wires[q]
                  <=> cur.wires[InRight(lhs, rhs, p)] = cur.wires[InRight(lhs, rhs, q)]
        /\ lhs = FromBox(F).val /\ rhs = FromBox(H).val =>
              cur.wires = <<0, 1, 0, 2, 1, 3, 2, 3>> /\ NSpiders(cur) = 4

\* f @ g was computed for an f with two boxes, an empty codomain and a
\* spider shared by two of its ports, and a g with a box
C10_Witness ==
    /\ op = "tensor"
    /\ err = "none"
    /\ Len(lhs.boxes) = 2
    /\ lhs.cod = <<>>
    /\ lhs.dom # <<>>
    /\ NSpiders(lhs) < Len(lhs.wires)
    /\ rhs.boxes # <<>>
    /\ NSpiders(cur) = NSpiders(lhs) + NSpiders(rhs)

\* the example of the class docstring: f @ h for single boxes f : x -> y
\* and h : y -> z
C10_WitnessExample ==
    /\ op = "tensor"
    /\ lhs = FromBox(F).val
    /\ rhs = FromBox(H).val
    /\ cur.wires = <<0, 1, 0, 2, 1, 3, 2, 3>>


----------------------------------------------------------------------------
(* C11: bijection is defined exactly on the bijective hypergraphs *)

\* C11: h.bijection raises ValueError iff some spider of h has a number of
\* incident ports other than 0 or 2; otherwise it returns a list b with one
\* entry per port such that b[b[i]] = i, b[i] # i and wires[b[i]] =
\* wires[i] for every port index i.
C11_Bijection ==
    op = "bijection" =>
        LET b == out.list
            odd == \E s \in 0..(NSpiders(lhs) - 1) : Count(lhs.wires, s) \notin {0, 2}
        IN /\ (err = "ValueError") <=> odd
           /\ err \in {"none", "ValueError"}
           /\ err = "none" =>
                /\ Len(b) = Len(lhs.wires)
                /\ \A i \in 0..(Len(b) - 1) :
                      /\ b[i + 1] \in 0..(Len(b) - 1)
                      /\ b[i + 1] # i
                      /\ b[b[i + 1] + 1] = i
                      /\ lhs.wires[b[i + 1] + 1] = lhs.wires[i + 1]

\* the bijection of a hypergraph with two boxes and six ports was computed
C11_Witness ==
    /\ op = "bijection"
    /\ err = "none"
    /\ Len(lhs.boxes) = 2
    /\ Len(out.list) = 6

\* bijection raised on a hypergraph with a spider of three ports
C11_WitnessRaised ==
    /\ op = "bijection"
    /\ err = "ValueError"
    /\ \E s \in 0..(NSpiders(lhs) - 1) : Count(lhs.wires, s) = 3
----------------------------------------------------------------------------
(* C12: the round trip through the planar form *)

\* C12: for every hypergraph d expressible without cups, caps or traces,
\* among them spiders(0, 0, x), spiders(2, 3, x) and spiders(1, 2, x @ y),
\* from_diagram(d.to_diagram()) returns and equals d under structural
\* equality.
C12_RoundTrip ==
    (op = "back_n_forth" /\ (IsExpressible(lhs) \/ IsDocExample(lhs))) =>
        /\ err = "none"
        /\ Eq(cur, lhs)

\* the round trip of spiders(2, 3, x) went through a diagram with one
\* spider box and came back
C12_Witness ==
    /\ op = "back_n_forth"
    /\ IsExpressible(lhs)
    /\ lhs = Spiders(2, 3, <<X>>).val
    /\ err = "none"
    /\ NonSwapBoxes(out.diagram) = <<SpiderBox(2, 3, X)>>
    /\ cur.boxes = <<>>

\* the round trip of spiders(0, 0, x)
C12_WitnessScalar ==
    /\ op = "back_n_forth"
    /\ IsDocExample(lhs)
    /\ lhs = Spiders(0, 0, <<X>>).val
    /\ err = "none"
    /\ cur.spider_types = <<X>>

\* the round trip of spiders(1, 2, x @ y)
C12_WitnessTwoTypes ==
    /\ op = "back_n_forth"
    /\ IsExpressible(lhs)
    /\ lhs = Spiders(1, 2, <<X, Y>>).val
    /\ err = "none"
    /\ Len(out.diagram.inside) > 2

\* the round trip of a hypergraph with boxes whose planar form has swaps
C12_WitnessSwaps ==
    /\ op = "back_n_forth"
    /\ IsExpressible(lhs)
    /\ err = "none"
    /\ lhs.boxes # <<>>
    /\ Len(out.diagram.inside) > Len(lhs.boxes)
    /\ NonSwapBoxes(out.diagram) = lhs.boxes


----------------------------------------------------------------------------
(* C13: from_graph after to_graph *)

\* C13: for every hypergraph h, from_graph(h.to_graph()) succeeds and
\* returns a hypergraph with the same dom, cod, boxes (in the same order),
\* wires, spider_types and offsets as h.
C13_FromGraphInverse ==
    op = "from_graph" =>
        /\ err = "none"
        /\ cur.dom = lhs.dom
        /\ cur.cod = lhs.cod
        /\ cur.boxes = lhs.boxes
        /\ cur.wires = lhs.wires
        /\ cur.spider_types = lhs.spider_types
        /\ cur.offsets = lhs.offsets

----------------------------------------------------------------------------
(* C14: interchange only changes the linearization *)

\* the sequence s with its entries number i and j (0-based) exchanged
Exchanged(s, i, j) ==
    [k \in 1..Len(s) |-> IF k = i + 1 THEN s[j + 1] ELSE IF k = j + 1 THEN s[i + 1] ELSE s[k]]

\* The port of r that the port p (0-based) of h becomes when the boxes i
\* and j are exchanged: a port of box i becomes the port at the same place
\* of the box now at index j and conversely, every other port stays with
\* its box, input or output.
MovedPort(h, r, i, j, p) ==
    IF p < Len(h.dom) THEN p
    ELSE IF p >= Len(h.wires) - Len(h.cod) THEN p
    ELSE LET k == CHOOSE k \in 1..Len(h.boxes) :
                    /\ BoxStart(h.dom, h.boxes, k) <= p
                    /\ p < BoxStart(h.dom, h.boxes, k + 1)
             k2 == IF k = i + 1 THEN j + 1 ELSE IF k = j + 1 THEN i + 1 ELSE k
         IN BoxStart(r.dom, r.boxes, k2) + (p - BoxStart(h.dom, h.boxes, k))

\* the number of spiders of h of type typ that no port is attached to
ScalarsOfType(h, typ) ==
    Cardinality({s \in ScalarSpiders(h) : h.spider_types[s + 1] = typ})

\* C14: for every hypergraph h and all box indices i, j, h.interchange(i,
\* j) succeeds and has the boxes i and j with their offsets and their
\* dom/cod wire segments exchanged, the same dom and cod, the same spiders
\* with the same types (two ports share a spider after the call iff they
\* did before, spiders being numbered anew by the constructor), and it
\* equals h under structural equality.
C14_InterchangeLinearization ==
    op = "interchange" =>
        LET h == lhs
            r == cur
            i == raw.n_in
            j == raw.n_out
            ports == 0..(Len(h.wires) - 1)
            moved == [p \in ports |-> MovedPort(h, r, i, j, p)]
        IN /\ err = "none"
           /\ r.dom = h.dom
           /\ r.cod = h.cod
           /\ r.boxes = Exchanged(h.boxes, i, j)
           /\ r.offsets = Exchanged(h.offsets, i, j)
           /\ Len(r.wires) = Len(h.wires)
           /\ NSpiders(r) = NSpiders(h)
           /\ \A p \in ports, q \in ports :
                 (h.wires[p + 1] = h.wires[q + 1])
                    <=> (r.wires[moved[p] + 1] = r.wires[moved[q] + 1])
           /\ \A p \in ports :
                 r.spider_types[r.wires[moved[p] + 1] + 1] = h.spider_types[h.wires[p + 1] + 1]
           /\ \A s \in ScalarSpiders(h) :
                 ScalarsOfType(r, h.spider_types[s + 1]) = ScalarsOfType(h, h.spider_types[s + 1])
           /\ Eq(r, h)

\* C14 as stated, with spiders compared by their numbers: the wire segments
\* of the boxes i and j are exchanged, every other wire and the tuple of
\* spider types are unchanged, and the result equals h.
C14_InterchangeSameNumbers ==
    op = "interchange" =>
        LET h == lhs
            r == cur
            i == raw.n_in
            j == raw.n_out
        IN /\ err = "none"
           /\ r.dom = h.dom
           /\ r.cod = h.cod
           /\ r.boxes = Exchanged(h.boxes, i, j)
           /\ r.offsets = Exchanged(h.offsets, i, j)
           /\ BoxWires(r) = Exchanged(BoxWires(h), i, j)
           /\ Slice(r.wires, 0, Len(r.dom)) = Slice(h.wires, 0, Len(h.dom))
           /\ Slice(r.wires, Len(r.wires) - Len(r.cod), Len(r.wires))
                = Slice(h.wires, Len(h.wires) - Len(h.cod), Len(h.wires))
           /\ r.spider_types = h.spider_types
           /\ Eq(r, h)

\* two different boxes were exchanged and the constructor numbered the
\* spiders anew
C14_Witness ==
    /\ op = "interchange"
    /\ err = "none"
    /\ raw.n_in # raw.n_out
    /\ lhs.boxes[1] # lhs.boxes[2]
    /\ cur.wires # lhs.wires
    /\ \E p \in 1..Len(lhs.wires) :
          cur.wires[MovedPort(lhs, cur, raw.n_in, raw.n_out, p - 1) + 1] # lhs.wires[p]
----------------------------------------------------------------------------
(* C15: simplify *)

\* no single interchange of h has a strictly shorter planar form
IsLocalMinimum(h) ==
    \A i, j \in 0..(Len(h.boxes) - 1) :
        LET result == Interchange(h, i, j)
        IN /\ result.err = "none"
           /\ ToDiagram(result.val).err = "none"
           /\ DiagramLen(ToDiagram(result.val)) >= DiagramLen(ToDiagram(h))

\* C15: simplify terminates on every hypergraph, after at most
\* len(self.to_diagram()) interchanges since each one it applies gives a
\* strictly shorter planar form; its result r equals self under structural
\* equality, len(r.to_diagram()) <= len(self.to_diagram()), and no single
\* interchange(i, j) of r has a strictly shorter to_diagram() (the planar
\* forms are those simplify computes itself, when self has boxes).
C15_Simplify ==
    (op = "simplify") =>
        /\ err = "none"
        /\ Eq(cur, lhs)
        /\ lhs.boxes # <<>> =>
                /\ ToDiagram(lhs).err = "none"
                /\ out.list[1] <= DiagramLen(ToDiagram(lhs))
                /\ DiagramLen(ToDiagram(cur)) <= DiagramLen(ToDiagram(lhs))
                /\ IsLocalMinimum(cur)


----------------------------------------------------------------------------
(* C16: make_bijective *)

\* the number of entries of the sequence s equal to e
Occurrences(s, e) == Cardinality({k \in DOMAIN s : s[k] = e})

\* the entries of s at the positions of S, in order
Restrict(s, S) == [k \in 1..Cardinality(S) |-> s[SortedSeq(S)[k]]]

\* the spider boxes that make_bijective owes to h: one for each spider
\* whose number of ports is not 0 or 2, with its numbers of source and sink
\* ports
OwedSpiderBoxes(h) ==
    LET sw == SpiderWires(h)
        odd == SortedSeq({s \in 1..NSpiders(h) :
                    Cardinality(sw[s].input_wires) + Cardinality(sw[s].output_wires)
                        \notin {0, 2}})
    IN [k \in 1..Len(odd) |->
            SpiderBox(Cardinality(sw[odd[k]].input_wires),
                      Cardinality(sw[odd[k]].output_wires),
                      h.spider_types[odd[k]])]

\* boxes is old in its order with the boxes of added put in somewhere:
\* some positions of boxes hold old, in order, and the other positions
\* hold the boxes of added, each as many times as added has it
IsOldPlusAdded(boxes, old, added) ==
    /\ Len(boxes) = Len(old) + Len(added)
    /\ \E S \in SUBSET (1..Len(boxes)) :
          /\ Cardinality(S) = Len(old)
          /\ Restrict(boxes, S) = old
          /\ LET rest == Restrict(boxes, (1..Len(boxes)) \ S)
             IN \A b \in Range(rest) \cup Range(added) :
                    Occurrences(rest, b) = Occurrences(added, b)

\* C16: make_bijective terminates on every hypergraph h and returns a
\* bijective hypergraph with the same dom and cod, whose boxes are h's
\* boxes in their original relative order plus exactly one
\* spider_factory(n_in, n_out, typ) box for each spider of h whose degree is
\* not 0 or 2, (n_in, n_out) being the spider's numbers of source and sink
\* ports; spiders(3, 2, x).make_bijective() has exactly one box Spider(3,
\* 2, x) and wires (0, 1, 2) + (0, 1, 2) + (3, 4) + (3, 4).
C16_MakeBijective ==
    op = "make_bijective" =>
        /\ err = "none"
        /\ IsBijective(cur)
        /\ cur.dom = lhs.dom
        /\ cur.cod = lhs.cod
        /\ IsOldPlusAdded(cur.boxes, lhs.boxes, OwedSpiderBoxes(lhs))
        /\ (lhs = Spiders(3, 2, <<X>>).val) =>
                /\ cur.boxes = <<SpiderBox(3, 2, X)>>
                /\ cur.wires = <<0, 1, 2, 0, 1, 2, 3, 4, 3, 4>>

\* make_bijective added two spider boxes to a hypergraph with a box of its
\* own
C16_Witness ==
    /\ op = "make_bijective"
    /\ err = "none"
    /\ Len(lhs.boxes) >= 1
    /\ Len(OwedSpiderBoxes(lhs)) = 2
    /\ Len(cur.boxes) = Len(lhs.boxes) + 2

\* make_bijective was run on spiders(3, 2, x)
C16_WitnessExample ==
    /\ op = "make_bijective"
    /\ lhs = Spiders(3, 2, <<X>>).val
    /\ cur.wires = <<0, 1, 2, 0, 1, 2, 3, 4, 3, 4>>

----------------------------------------------------------------------------
(* C17: make_monogamous *)

\* the types of the spiders of h with n_sources source ports and n_sinks
\* sink ports, in the order of the spiders
TypesOfSpiders(h, n_sources, n_sinks) ==
    LET sw == SpiderWires(h)
        found == SortedSeq({s \in 1..NSpiders(h) :
                    /\ Cardinality(sw[s].input_wires) = n_sources
                    /\ Cardinality(sw[s].output_wires) = n_sinks})
    IN [k \in 1..Len(found) |-> h.spider_types[found[k]]]

\* s and t have the same entries, each as many times
SameBag(s, t) ==
    /\ Len(s) = Len(t)
    /\ \A e \in Range(s) \cup Range(t) : Occurrences(s, e) = Occurrences(t, e)

\* C17: make_monogamous terminates on every hypergraph and returns a
\* monogamous hypergraph with the same dom and cod: after make_bijective,
\* every spider joining two source ports is split by a cup box appended
\* after all existing boxes and every spider joining two sink ports by a cap
\* box put before all existing boxes; the transpose of a box f: x -> x
\* becomes the boxes (Cap, f, Cup) with wires (0, ) + (1, 2) + (1, 3) +
\* (0, 3) + (2, ).
C17_MakeMonogamous ==
    op = "make_monogamous" =>
        /\ err = "none"
        /\ IsMonogamous(cur)
        /\ cur.dom = lhs.dom
        /\ cur.cod = lhs.cod
        /\ LET bijective == MakeBijective(lhs).val
               cups == TypesOfSpiders(bijective, 2, 0)
               caps == TypesOfSpiders(bijective, 0, 2)
               n == Len(bijective.boxes)
           IN /\ Len(cur.boxes) = Len(caps) + n + Len(cups)
              /\ Slice(cur.boxes, Len(caps), Len(caps) + n) = bijective.boxes
              /\ SameBag(Slice(cur.boxes, 0, Len(caps)),
                         [k \in 1..Len(caps) |-> CapBox(caps[k], caps[k])])
              /\ SameBag(Slice(cur.boxes, Len(caps) + n, Len(cur.boxes)),
                         [k \in 1..Len(cups) |-> CupBox(cups[k], cups[k])])
        /\ (lhs.boxes = <<Endo>> /\ lhs.wires = <<0, 1, 0, 1>>) =>
                /\ cur.boxes = <<CapBox(X, X), Endo, CupBox(X, X)>>
                /\ cur.wires = <<0, 1, 2, 1, 3, 0, 3, 2>>

\* make_monogamous put a cap before and a cup after the boxes of a
\* hypergraph that was not bijective
C17_Witness ==
    /\ op = "make_monogamous"
    /\ err = "none"
    /\ ~IsBijective(lhs)
    /\ Len(lhs.boxes) >= 1
    /\ cur.boxes[1].name = "Cap"
    /\ cur.boxes[Len(cur.boxes)].name = "Cup"

\* make_monogamous was run on the transpose of f
C17_WitnessExample ==
    /\ op = "make_monogamous"
    /\ lhs.boxes = <<Endo>>
    /\ lhs.wires = <<0, 1, 0, 1>>
    /\ cur.wires = <<0, 1, 2, 1, 3, 0, 3, 2>>

----------------------------------------------------------------------------
(* C18: make_polygynous *)

\* the merge boxes that make_polygynous owes to h: one
\* spider_factory(k, 1, typ) for each spider whose number k of source ports
\* is not one
OwedMergeBoxes(h) ==
    LET sw == SpiderWires(h)
        found == SortedSeq({s \in 1..NSpiders(h) : Cardinality(sw[s].input_wires) # 1})
    IN [k \in 1..Len(found) |->
            SpiderBox(Cardinality(sw[found[k]].input_wires), 1, h.spider_types[found[k]])]

\* C18: make_polygynous terminates without error on every hypergraph,
\* including those where the spider to rewrite has a box output among its
\* sources (the merge box is then inserted at a depth >= 1), and returns a
\* polygynous hypergraph with the same dom and cod, with one
\* spider_factory(k, 1, typ) box for each spider with a number k of source
\* ports other than one; spiders(2, 3, x).make_polygynous() has the boxes
\* (Spider(2, 1, x), ) and the wires (0, 1) + (0, 1, 2) + (2, 2, 2).
C18_MakePolygynous ==
    op = "make_polygynous" =>
        /\ err = "none"
        /\ IsPolygynous(cur)
        /\ cur.dom = lhs.dom
        /\ cur.cod = lhs.cod
        /\ IsOldPlusAdded(cur.boxes, lhs.boxes, OwedMergeBoxes(lhs))
        /\ (lhs = Spiders(2, 3, <<X>>).val) =>
                /\ cur.boxes = <<SpiderBox(2, 1, X)>>
                /\ cur.wires = <<0, 1, 0, 1, 2, 2, 2, 2>>

----------------------------------------------------------------------------
(* C19: make_causal *)

\* the violations of causality in a hypergraph: the spiders without
\* source and the pairs of a source and a sink of one spider with the sink
\* before the source
Violations(h) ==
    LET sw == SpiderWires(h)
    IN Cardinality({s \in 1..NSpiders(h) : sw[s].input_wires = {}})
       + Cardinality({<<s, u, v>> \in (1..NSpiders(h)) \X (0..Len(h.wires)) \X (0..Len(h.wires)) :
                        u \in sw[s].input_wires /\ v \in sw[s].output_wires /\ v < u})

\* C19: make_causal terminates on every hypergraph h and returns a causal
\* hypergraph with the same dom and cod as h; each rewrite step (on the
\* polygynous hypergraph p it works on) builds arg with dom = p.dom @ typ
\* and cod = p.cod @ typ and strictly fewer violations than p, and the
\* hypergraph handed to explicit_trace, arg.make_causal(), is causal.
C19_MakeCausal ==
    op = "make_causal" =>
        /\ err = "none"
        /\ IsCausal(cur)
        /\ cur.dom = lhs.dom
        /\ cur.cod = lhs.cod
        /\ LET p == MakePolygynous(lhs).val
               step == CausalStep(p)
               arg == step.arg.val
           IN step.found =>
                /\ step.arg.err = "none"
                /\ Len(arg.dom) = Len(p.dom) + 1
                /\ Slice(arg.dom, 0, Len(p.dom)) = p.dom
                /\ Len(arg.cod) = Len(p.cod) + 1
                /\ Slice(arg.cod, 0, Len(p.cod)) = p.cod
                /\ arg.dom[Len(arg.dom)] = arg.cod[Len(arg.cod)]
                /\ Violations(arg) < Violations(p)
                /\ IsCausal(MakeCausal(arg).val)

----------------------------------------------------------------------------
(* C20: the postcondition of to_diagram on causal monogamous hypergraphs *)

\* h is causal and monogamous and none of its boxes has an offset
IsPlanarInput(h) ==
    /\ IsCausal(h)
    /\ IsMonogamous(h)
    /\ \A k \in 1..Len(h.offsets) : h.offsets[k] = NoOffset

\* C20: for every causal and monogamous hypergraph h (offsets all None),
\* to_diagram returns a diagram with dom = h.dom and cod = h.cod whose
\* non-swap boxes are exactly h.boxes in the same order; after the final
\* reordering loop the frontier scan equals h's output wire segment
\* position by position, and no scan.index lookup fails.
C20_Planarization ==
    (op = "to_diagram" /\ IsPlanarInput(lhs)) =>
        /\ err = "none"
        /\ out.diagram.dom = lhs.dom
        /\ out.diagram.cod = lhs.cod
        /\ LayersCompose(out.diagram)
        /\ NonSwapBoxes(out.diagram) = lhs.boxes
        /\ out.list = Slice(lhs.wires, Len(lhs.wires) - Len(lhs.cod), Len(lhs.wires))

\* to_diagram moved the second input of a box to the right of its first
\* one, which was found further right on the frontier
C20_Witness ==
    /\ op = "to_diagram"
    /\ IsPlanarInput(lhs)
    /\ err = "none"
    /\ lhs.boxes # <<>>
    /\ lhs.boxes[Len(lhs.boxes)] = M
    /\ Len(out.diagram.inside) > Len(lhs.boxes)
    /\ \E k \in 1..Len(lhs.boxes) :
          LET start == BoxStart(lhs.dom, lhs.boxes, k)
          IN /\ Len(lhs.boxes[k].dom) = 2
             /\ lhs.wires[start + 2] < lhs.wires[start + 1]

\* to_diagram crossed wires before the outputs
C20_WitnessOutputs ==
    /\ op = "to_diagram"
    /\ IsPlanarInput(lhs)
    /\ err = "none"
    /\ lhs.boxes = <<W>>
    /\ Len(out.diagram.inside) = 2
    /\ out.diagram.inside[2].box.name = "Swap"
----------------------------------------------------------------------------
(* C21: the frontier of to_diagram *)

\* the segment of h.wires of the inputs of the box number k (1-based)
DomWires(h, k) ==
    Slice(h.wires, BoxStart(h.dom, h.boxes, k),
          BoxStart(h.dom, h.boxes, k) + Len(h.boxes[k].dom))

\* after the step the frontier is as long as the cod of the diagram and the
\* spider at each place has the type found there, up to adjoint
FrontierTyped(h, entry) ==
    /\ Len(entry.scan) = Len(entry.cod)
    /\ \A k \in 1..Len(entry.scan) :
          PortMatches(entry.cod[k], h.spider_types[entry.scan[k] + 1])

\* when the box of the step is appended its inputs lie on the frontier from
\* the offset on, in order, and the offset is within the frontier
InputsInPlace(h, entry) ==
    /\ 0 <= entry.at
    /\ entry.at + Len(h.boxes[entry.box].dom) <= Len(entry.before)
    /\ Slice(entry.before, entry.at, entry.at + Len(h.boxes[entry.box].dom))
       = DomWires(h, entry.box)

\* C21: on a causal and monogamous hypergraph, after every swap insertion
\* and every box placement of to_diagram len(scan) = len(diagram.cod) (the
\* assertion in the loop never fails) and the type of the spider scan[k] is
\* diagram.cod[k] up to adjoint; when a box is appended,
\* scan[offset : offset + len(box.dom)] is that box's dom wire segment,
\* with 0 <= offset and offset + len(box.dom) <= len(scan).
C21_FrontierInvariant ==
    (op = "to_diagram" /\ IsCausal(lhs) /\ IsMonogamous(lhs)) =>
        /\ err # "AssertionError"
        /\ \A e \in 1..Len(out.log) :
              /\ out.log[e].composed => FrontierTyped(lhs, out.log[e])
              /\ out.log[e].box # 0 => InputsInPlace(lhs, out.log[e])
----------------------------------------------------------------------------
(* C22: where make_bijective and make_polygynous insert their box *)

\* the indices of the boxes of h with a codomain port on the spider
FeedingBoxes(h, spider) ==
    {k \in 0..(Len(h.boxes) - 1) :
        \E p \in SpiderWires(h)[spider + 1].input_wires :
            LET node == Ports(h.dom, h.cod, h.boxes)[p + 1]
            IN node.kind = "cod" /\ node.depth = k}

\* the indices of the boxes of h with a domain port on the spider
ConsumingBoxes(h, spider) ==
    {k \in 0..(Len(h.boxes) - 1) :
        \E p \in SpiderWires(h)[spider + 1].output_wires :
            LET node == Ports(h.dom, h.cod, h.boxes)[p + 1]
            IN node.kind = "dom" /\ node.depth = k}

\* d + 1 for the largest index d of a box with a codomain port on the
\* spider, 0 when there is none
AfterFeedingBoxes(h, spider) ==
    IF FeedingBoxes(h, spider) = {} THEN 0
    ELSE MaxOfSet(FeedingBoxes(h, spider)) + 1

\* the index of the first box with a domain port on the spider, the number
\* of boxes when there is none
BeforeConsumingBoxes(h, spider) ==
    IF ConsumingBoxes(h, spider) = {} THEN Len(h.boxes)
    ELSE MinOfSet(ConsumingBoxes(h, spider))

\* the spider box make_bijective inserts for the spider
BijectiveBox(h, spider) ==
    SpiderBox(Cardinality(SpiderWires(h)[spider + 1].input_wires),
              Cardinality(SpiderWires(h)[spider + 1].output_wires),
              h.spider_types[spider + 1])

\* the spider box make_polygynous inserts for the spider
PolygynousBox(h, spider) ==
    SpiderBox(Cardinality(SpiderWires(h)[spider + 1].input_wires), 1,
              h.spider_types[spider + 1])

RECURSIVE BijectiveRewrites(_)
\* the rewrites make_bijective goes through from h on: the receiver of each
\* one, the spider rewritten and the outcome of the constructor call
BijectiveRewrites(h) ==
    IF BijectiveTodo(h) = {} THEN <<>>
    ELSE LET Following(spider, result) ==
                 <<[self |-> h, spider |-> spider, result |-> result]>>
                 \o (IF result.err # "none" THEN <<>> ELSE BijectiveRewrites(result.val))
             From(spider) ==
                 Following(spider, BijectiveStep(h, spider, BijectiveDepth(h, spider)))
         IN From(MaxOfSet(BijectiveTodo(h)))

RECURSIVE PolygynousRewrites(_)
\* the rewrites make_polygynous goes through from h on
PolygynousRewrites(h) ==
    IF PolygynousTodo(h) = {} THEN <<>>
    ELSE LET Following(spider, result) ==
                 <<[self |-> h, spider |-> spider, result |-> result]>>
                 \o (IF result.err # "none" THEN <<>> ELSE PolygynousRewrites(result.val))
             From(spider) ==
                 Following(spider, PolygynousStep(h, spider, PolygynousDepth(h, spider)))
         IN From(MinOfSet(PolygynousTodo(h)))

\* the rewrite put the box at the index depth among the boxes it started
\* from
InsertedAt(rewrite, box, depth) ==
    /\ rewrite.result.err = "none"
    /\ rewrite.result.val.boxes = InsertAt(rewrite.self.boxes, depth, box)

C22_WitnessAfter ==
    /\ op = "make_bijective"
    /\ err = "none"
    /\ \E r \in 1..Len(BijectiveRewrites(lhs)) :
          FeedingBoxes(BijectiveRewrites(lhs)[r].self, BijectiveRewrites(lhs)[r].spider) # {}

\* make_polygynous put a merge box in front of the boxes
C22_WitnessPolygynous ==
    /\ op = "make_polygynous"
    /\ err = "none"
    /\ lhs.boxes # <<>>
    /\ PolygynousRewrites(lhs) # <<>>
----------------------------------------------------------------------------
(* C23: the normalisation passes raise no AxiomError *)

\* the four normalisation passes
Passes == {"make_bijective", "make_monogamous", "make_polygynous", "make_causal"}

\* some port of h carries the adjoint of the type of its spider
HasAdjointPort(h) ==
    \E p \in 1..Len(h.wires) :
        Ports(h.dom, h.cod, h.boxes)[p].obj # h.spider_types[h.wires[p] + 1]

\* C23: starting from any well-formed hypergraph, every hypergraph that
\* make_bijective, make_monogamous, make_polygynous and make_causal construct
\* on their way passes the port-type check of the constructor, also when a
\* port carries the adjoint of the type of its spider: none of the passes
\* raises AxiomError.
C23_NoAxiomError ==
    op \in Passes => err # "AxiomError"

\* make_monogamous split a spider that has a port of the adjoint type and
\* joined the halves with a cup or a cap
C23_Witness ==
    /\ op = "make_monogamous"
    /\ err = "none"
    /\ HasAdjointPort(lhs)
    /\ \E s \in 0..(NSpiders(lhs) - 1) :
          \E p \in SpiderWires(lhs)[s + 1].input_wires \cup SpiderWires(lhs)[s + 1].output_wires :
              /\ Ports(lhs.dom, lhs.cod, lhs.boxes)[p + 1].obj # lhs.spider_types[s + 1]
              /\ Cardinality(SpiderWires(lhs)[s + 1].input_wires) # 1
    /\ Len(cur.boxes) > Len(lhs.boxes)

\* make_causal traced a wire of a hypergraph with a port of the adjoint type
C23_WitnessCausal ==
    /\ op = "make_causal"
    /\ err = "none"
    /\ HasAdjointPort(lhs)
    /\ \E k \in 1..Len(cur.boxes) : cur.boxes[k].name = "Cap"

\* make_bijective gave a spider box to a spider with a port of the adjoint
\* type
C23_WitnessBijective ==
    /\ op = "make_bijective"
    /\ err = "none"
    /\ \E r \in 1..Len(BijectiveRewrites(lhs)) :
          LET rewrite == BijectiveRewrites(lhs)[r]
          IN \E p \in 1..Len(rewrite.self.wires) :
                /\ rewrite.self.wires[p] = rewrite.spider
                /\ Ports(rewrite.self.dom, rewrite.self.cod, rewrite.self.boxes)[p].obj
                   # rewrite.self.spider_types[rewrite.spider + 1]
----------------------------------------------------------------------------
(* C24: how the four classification predicates are ordered *)

\* C24 as stated: bijective, monogamous, polygynous, causal are increasingly
\* strong in that order: is_causal implies is_polygynous, is_polygynous
\* implies is_monogamous and is_monogamous implies is_bijective.
C24_Chain ==
    /\ IsCausal(cur) => IsPolygynous(cur)
    /\ IsPolygynous(cur) => IsMonogamous(cur)
    /\ IsMonogamous(cur) => IsBijective(cur)

\* C24 (amended): is_causal implies is_polygynous, and is_monogamous implies
\* both is_polygynous and is_bijective; the four predicates are not a chain.
C24_Order ==
    /\ IsCausal(cur) => IsPolygynous(cur)
    /\ IsMonogamous(cur) => IsPolygynous(cur)
    /\ IsMonogamous(cur) => IsBijective(cur)

\* a value with a box that is causal, hence polygynous, and neither
\* monogamous nor bijective
C24_Witness ==
    /\ op \in Constructors \cup Passes
    /\ cur.boxes # <<>>
    /\ IsCausal(cur)
    /\ IsPolygynous(cur)
    /\ ~IsMonogamous(cur)
    /\ ~IsBijective(cur)

\* a value with a scalar spider that is monogamous, hence polygynous and
\* bijective, and not causal
C24_WitnessMonogamous ==
    /\ op \in Constructors \cup Passes
    /\ ScalarSpiders(cur) # {}
    /\ Len(cur.wires) > 0
    /\ IsMonogamous(cur)
    /\ IsPolygynous(cur)
    /\ IsBijective(cur)
    /\ ~IsCausal(cur)

\* a value that is bijective and not polygynous, and one that is polygynous
\* and not bijective
C24_WitnessBijective ==
    /\ op \in Constructors
    /\ \/ IsBijective(cur) /\ ~IsPolygynous(cur) /\ cur.boxes # <<>>
       \/ IsPolygynous(cur) /\ ~IsBijective(cur) /\ ~IsCausal(cur)
----------------------------------------------------------------------------
(* C25: what is_monogamous decides *)

\* the source ports of h (diagram inputs and box outputs) and its sink ports
\* (box inputs and diagram outputs), as port indices
SourcePorts(h) ==
    {p \in 0..(Len(h.wires) - 1) :
        Ports(h.dom, h.cod, h.boxes)[p + 1].kind \in {"input", "cod"}}

SinkPorts(h) ==
    {p \in 0..(Len(h.wires) - 1) :
        Ports(h.dom, h.cod, h.boxes)[p + 1].kind \in {"dom", "output"}}

\* wires induces a bijection between sources and sinks: every source shares
\* its spider with exactly one sink and every sink with exactly one source
InducesBijection(h) ==
    /\ \A u \in SourcePorts(h) :
          Cardinality({v \in SinkPorts(h) : h.wires[v + 1] = h.wires[u + 1]}) = 1
    /\ \A v \in SinkPorts(h) :
          Cardinality({u \in SourcePorts(h) : h.wires[u + 1] = h.wires[v + 1]}) = 1

\* sum(len(box.dom) for box in boxes) and sum(len(box.cod) for box in boxes)
SumOfDoms(h) == Len(Flatten([k \in 1..Len(h.boxes) |-> h.boxes[k].dom]))

SumOfCods(h) == Len(Flatten([k \in 1..Len(h.boxes) |-> h.boxes[k].cod]))

\* the equalities of the docstring of is_monogamous
DocstringCounts(h) ==
    /\ Len(h.dom) + SumOfDoms(h) = NSpiders(h) - Cardinality(ScalarSpiders(h))
    /\ NSpiders(h) - Cardinality(ScalarSpiders(h)) = SumOfCods(h) + Len(h.dom)

\* as many sources as non-scalar spiders as sinks
SourceAndSinkCounts(h) ==
    /\ Len(h.dom) + SumOfCods(h) = NSpiders(h) - Cardinality(ScalarSpiders(h))
    /\ NSpiders(h) - Cardinality(ScalarSpiders(h)) = SumOfDoms(h) + Len(h.cod)

C25_WitnessCounts ==
    /\ op \in Constructors \cup Passes
    /\ ~IsMonogamous(cur)
    /\ SourceAndSinkCounts(cur)
    /\ DocstringCounts(cur)
----------------------------------------------------------------------------
(* C26: the passes on hypergraphs that already have their target shape *)

\* the pass named name applied to h
PassOn(name, h) ==
    IF name = "make_bijective" THEN MakeBijective(h)
    ELSE IF name = "make_monogamous" THEN MakeMonogamous(h)
    ELSE IF name = "make_polygynous" THEN MakePolygynous(h)
    ELSE MakeCausal(h)

\* the shape the pass named name aims at holds of h
HasShapeOf(name, h) ==
    IF name = "make_bijective" THEN IsBijective(h)
    ELSE IF name = "make_monogamous" THEN IsMonogamous(h)
    ELSE IF name = "make_polygynous" THEN IsPolygynous(h)
    ELSE IsCausal(h)

\* C26: each normalisation pass returns its receiver unchanged (no box
\* inserted, same wires and spider_types) whenever the receiver already has
\* the shape of the pass: make_bijective when is_bijective holds,
\* make_monogamous when is_monogamous, make_polygynous when is_polygynous
\* (scalar spiders included) and make_causal when is_causal; hence a pass
\* applied to its own result gives that result again.
C26_IdentityOnShape ==
    /\ (op \in Passes /\ HasShapeOf(op, lhs)) => (err = "none" /\ cur = lhs)
    /\ (op \in Passes /\ err = "none") => PassOn(op, cur) = Return(cur)
----------------------------------------------------------------------------
(* C27: the assertion of make_causal *)

\* C27: 'assert not output_wires' in make_causal never fails: a spider with
\* no source port that the loop meets has no sink port either, because the
\* receiver is polygynous there; this holds in the calls make_causal makes
\* on the wrapped hypergraph arg as well.
C27_AssertionHolds ==
    op = "make_causal" => err # "AssertionError"

\* make_causal met two spiders without source port, the second one in the
\* call on the wrapped hypergraph, and traced them
C27_Witness ==
    /\ op = "make_causal"
    /\ err = "none"
    /\ Cardinality(ScalarSpiders(lhs)) = 2
    /\ Cardinality({k \in 1..Len(cur.boxes) : cur.boxes[k].name = "Cap"}) = 2

\* make_causal was called on a hypergraph that is not polygynous and has a
\* spider with sinks and no source, and returned
C27_WitnessSinksOnly ==
    /\ op = "make_causal"
    /\ err = "none"
    /\ ~IsPolygynous(lhs)
    /\ \E s \in 1..NSpiders(lhs) :
          /\ SpiderWires(lhs)[s].input_wires = {}
          /\ SpiderWires(lhs)[s].output_wires # {}

----------------------------------------------------------------------------
(* C28: the legs of the spider box of make_bijective *)

\* the index of the first port of the box a rewrite of make_bijective
\* inserts: the ports before it keep their index
LegStart(rewrite) ==
    BoxStart(rewrite.self.dom, rewrite.self.boxes,
             BijectiveDepth(rewrite.self, rewrite.spider) + 1)

\* the number of legs of the spider rewritten
LegCount(rewrite) ==
    Cardinality(SpiderWires(rewrite.self)[rewrite.spider + 1].input_wires)
    + Cardinality(SpiderWires(rewrite.self)[rewrite.spider + 1].output_wires)

\* the ports of the receiver of a rewrite that are, in its result, on the
\* spider of the port number k of the inserted box
SharedWith(rewrite, k) ==
    LET wires == rewrite.result.val.wires
        i == LegStart(rewrite)
        n_legs == LegCount(rewrite)
        others == {q \in 0..(Len(wires) - 1) :
                      /\ q < i \/ q >= i + n_legs
                      /\ wires[q + 1] = wires[i + k + 1]}
    IN {IF q < i THEN q ELSE q - n_legs : q \in others}

\* every domain port of the inserted box is alone with one source port of
\* the spider rewritten, every codomain port with one sink port
LegsOriented(rewrite) ==
    LET sources == SpiderWires(rewrite.self)[rewrite.spider + 1].input_wires
        sinks == SpiderWires(rewrite.self)[rewrite.spider + 1].output_wires
    IN  /\ rewrite.result.err = "none"
        /\ \A k \in 0..(LegCount(rewrite) - 1) :
              \E p \in (IF k < Cardinality(sources) THEN sources ELSE sinks) :
                  SharedWith(rewrite, k) = {p}

\* C28: when make_bijective replaces a spider with source ports S and sink
\* ports T by a spider box, each of the len(S) domain ports of the box is
\* on a fresh spider shared with exactly one port of S and each of its
\* len(T) codomain ports on a fresh spider shared with exactly one port of
\* T, for every hypergraph, also when a sink port of the spider has a
\* smaller index than one of its source ports.
C28_LegOrientation ==
    op = "make_bijective" =>
        \A r \in 1..Len(BijectiveRewrites(lhs)) :
            LegsOriented(BijectiveRewrites(lhs)[r])

----------------------------------------------------------------------------
(* C29: from_callable and the __call__ attribute of the box class *)

\* C29: the __call__ attribute that from_callable puts on the box class is
\* taken off again on every exit of the decorator, when it returns a
\* hypergraph and when it raises AxiomError (for a wrong number or type of
\* inputs passed to a box inside the decorated function, or for a
\* codomain mismatch): the box class has the attributes it had before.
C29_CallRemoved ==
    op = "from_callable" => ar_call = "absent"

----------------------------------------------------------------------------
(* C30: structural equality and the types of the spiders *)

\* C30: if h1 == h2 (Hypergraph.__eq__) then h1 and h2 have the same
\* number of spiders and the same multiset of spider_types, the types of
\* scalar spiders included: two hypergraphs without boxes, with empty dom
\* and cod and one scalar spider each are equal only if the two spiders
\* have the same type. h1 and h2 are the two operands of a call of >> or @.
C30_EqRespectsTypes ==
    op \in {"then", "tensor"} =>
        (Eq(lhs, rhs) =>
            /\ NSpiders(lhs) = NSpiders(rhs)
            /\ SameBag(lhs.spider_types, rhs.spider_types))
====
